---- MODULE Spec2Model ----
(***************************************************************************)
(* Model of the tasseograph collector's ingestion pipeline:                *)
(*   IngestHandler.ServeHTTP  (internal/collector/handler.go)              *)
(*   LLMClient.Analyze / tryEndpoint / isUnavailableErr (collector/llm.go) *)
(*   DB.InsertResult / DB.Close (internal/collector/db.go)                 *)
(* Strings are sequences of tokens; an error value is its message text     *)
(* plus the set of sentinel errors it wraps (errors.Is / errors.As).       *)
(***************************************************************************)
EXTENDS Integers, Sequences, FiniteSets, TLC

VARIABLES
    endpoints,   \* LLMClient.endpoints, fixed at construction
    llmNil,      \* TRUE when the handler was built with llm == nil
    calls,       \* one record per running ServeHTTP invocation
    db,          \* rows of the results table, in insert order
    dbSeq,       \* AUTOINCREMENT counter of the results table
    dbClosed,    \* TRUE once DB.Close has run
    now,         \* the collector's wall clock, what time.Now() returns
    owner,       \* history: owner[k] is the invocation that inserted db[k]
    prior,       \* history: prior[c] is the set of invocations that had
                 \* finished when invocation c began
    queried,     \* the last query run on the results table and its result
    inserted,    \* history: inserted[k] is the StoredResult that
                 \* InsertResult was given for db[k]
    agent        \* the agent of one host: its state file, the kernel log
                 \* it reads and the position of its collection

vars == <<endpoints, llmNil, calls, db, dbSeq, dbClosed, now, owner, prior,
          queried, inserted, agent>>

----------------------------------------------------------------------------
\* Bounds of the model

MaxEndpoints    == 2    \* longest configured fallback chain
MaxLatency      == 1    \* ms measured for a slow attempt
MaxDeltaLines   == 2    \* longest lines array of a Delta
maxPayloadBytes == 1    \* IngestHandler.maxPayloadBytes (configuration)
MaxRows         == 2    \* most rows of the results table
MaxTicks        == 2    \* half seconds the clock advances

----------------------------------------------------------------------------
\* Strings

apiKey == "secret"      \* IngestHandler.apiKey (configuration)

RECURSIVE Join(_, _)
\* strings.Join(elems, sep) as a token sequence
Join(elems, sep) ==
    IF Len(elems) = 0 THEN <<>>
    ELSE IF Len(elems) = 1 THEN <<elems[1]>>
    ELSE <<elems[1], sep>> \o Join(Tail(elems), sep)

\* strings.HasPrefix(s, prefix) for a one-token prefix
HasPrefix(s, prefix) == Len(s) >= 1 /\ s[1] = prefix

\* strings.TrimPrefix(s, prefix) for a one-token prefix
TrimPrefix(s, prefix) == IF HasPrefix(s, prefix) THEN Tail(s) ELSE s

\* The tokens error messages are built from, and whether a token has the
\* given substring (strings.Contains on one token).
TokenContains(tok, needle) ==
    CASE needle = "connection" ->
            tok \in {"connection failed: ", "connection refused",
                     "connection pool exhausted"}
      [] needle = "HTTP 502" -> tok = "HTTP 502"
      [] needle = "HTTP 503" -> tok = "HTTP 503"
      [] needle = "HTTP 504" -> tok = "HTTP 504"
      [] OTHER -> FALSE

\* strings.Contains(s, needle)
Contains(s, needle) == \E k \in 1..Len(s) : TokenContains(s[k], needle)

----------------------------------------------------------------------------
\* Values of protocol/types.go

NilIssues   == [isNil |-> TRUE,  items |-> <<>>]
EmptyIssues == [isNil |-> FALSE, items |-> <<>>]
OneIssue    == [isNil |-> FALSE, items |-> <<"ECC error">>]

\* *AnalysisResult; isNil stands for the nil pointer
NilResult == [isNil |-> TRUE, Status |-> "", Issues |-> NilIssues]
AnalysisResult(status, issues) ==
    [isNil |-> FALSE, Status |-> status, Issues |-> issues]

\* error values; isNil stands for a nil error
NilErr == [isNil |-> TRUE, text |-> <<>>, wraps |-> {}]
Err(text, wraps) == [isNil |-> FALSE, text |-> text, wraps |-> wraps]

\* var ErrLLMUnavailable = errors.New("all LLM endpoints unavailable")
ErrLLMUnavailable == Err(<<"all LLM endpoints unavailable">>, {"ErrLLMUnavailable"})

----------------------------------------------------------------------------
\* time.Time: t is the instant in half seconds since the epoch, offset the
\* zone offset of its location in hours (time.Now() is in time.Local)
Time(t, offset) == [t |-> t, offset |-> offset]

\* t.Format(time.RFC3339) as the pair of the local date-time digits (whole
\* seconds, the fraction is not printed) and the zone suffix
FormatRFC3339(tm) ==
    [local |-> (tm.t \div 2) + 3600 * tm.offset,
     zone  |-> IF tm.offset = 0 THEN "Z"
               ELSE IF tm.offset > 0 THEN "+" ELSE "-",
     hours |-> IF tm.offset >= 0 THEN tm.offset ELSE 0 - tm.offset]

----------------------------------------------------------------------------
\* LLMClient configuration: Endpoint{URL, Model, APIKey}

Endpoint(k) ==
    [URL |-> <<"http://llm", ToString(k)>>, Model |-> <<"model", ToString(k)>>,
     APIKey |-> <<"key", ToString(k)>>]

\* The chains NewLLMClient may be given: any prefix of the configured list,
\* the empty list included.
EndpointLists ==
    { [k \in 1..n |-> Endpoint(k)] : n \in 0..MaxEndpoints }

\* http.NewRequestWithContext rejects a URL that url.Parse cannot read.
URLParses(url) == Len(url) >= 1 /\ url[1] # "http://bad url"

----------------------------------------------------------------------------
\* What one provider may answer to one outbound request (the environment).
\*   transport : "" or the cause of a failed client.Do
\*   code      : HTTP status of the response
\*   errBody   : body of a non-200 response, as io.ReadAll returns it
\*   envelope  : how the body decodes: "badjson", "nochoices", "choices",
\*               or "readfail" when reading it fails with the error named
\*               by content
\*   content   : choices[0].message.content, "notjson" or a JSON document
\*   result    : the AnalysisResult that content decodes into

Reply(transport, code, errBody, envelope, content, result) ==
    [transport |-> transport, code |-> code, errBody |-> errBody,
     envelope |-> envelope, content |-> content, result |-> result]

TransportCauses == {"connection refused", "context deadline exceeded"}

ErrorBodies == { <<"bad request">>, <<"connection pool exhausted">> }

\* Documents a provider may put in the message content
ResultDocs ==
    { AnalysisResult("ok", EmptyIssues),
      AnalysisResult("warning", OneIssue),
      AnalysisResult("bogus", NilIssues) }

Replies ==
    { Reply(t, 0, <<>>, "", "", NilResult) : t \in TransportCauses }
    \cup { Reply("", code, <<>>, "", "", NilResult) : code \in {502, 503, 504} }
    \cup { Reply("", 400, b, "", "", NilResult) : b \in ErrorBodies }
    \cup { Reply("", 201, <<"chat completion">>, "choices", "json",
                 AnalysisResult("ok", EmptyIssues)) }
    \cup { Reply("", 200, <<>>, e, "", NilResult) : e \in {"badjson", "nochoices"} }
    \cup { Reply("", 200, <<>>, "choices", "notjson", NilResult) }
    \cup { Reply("", 200, <<>>, "choices", "json", r) : r \in ResultDocs }

\* What an attempt returns once the request's context is cancelled:
\* client.Do fails with "context canceled" or, when the response headers
\* had already arrived (inFlight), the read of the body does.
CanceledReplies(inFlight) ==
    { Reply("context canceled", 0, <<>>, "", "", NilResult) }
    \cup (IF inFlight
          THEN { Reply("", 200, <<>>, "readfail", "context canceled", NilResult) }
          ELSE {})

\* time.Since(start).Milliseconds(): an attempt is immediate or slow
Latencies == {0, MaxLatency}

\* The error client.Do returns: always a *url.Error, which implements
\* net.Error; it wraps context.DeadlineExceeded when the deadline passed.
ClientDoErr(cause) ==
    Err(<<"Post ", cause>>,
        {"url.Error", "net.Error"}
          \cup (IF cause = "context deadline exceeded"
                THEN {"context.DeadlineExceeded"} ELSE {}))

\* fmt.Errorf("HTTP %d", resp.StatusCode)
HTTPStatusText(code) ==
    CASE code = 502 -> "HTTP 502"
      [] code = 503 -> "HTTP 503"
      [] code = 504 -> "HTTP 504"
      [] OTHER -> "HTTP other"

\* the %d of fmt.Errorf("API error %d: %s", resp.StatusCode, body)
StatusCodeText(code) ==
    CASE code = 201 -> "201"
      [] code = 400 -> "400"
      [] OTHER -> "other status"

\* (result, latency, err) of LLMClient.tryEndpoint
Outcome(result, latency, err) ==
    [result |-> result, latency |-> latency, err |-> err]

\* Variant: the decoded result is not handed back to the caller.
tryEndpoint_ResultNotReturned(ep, reply, elapsed) ==
    IF ~URLParses(ep.URL)
    THEN Outcome(NilResult, 0, Err(<<"parse ", "invalid URL">>, {}))
    ELSE IF reply.transport # ""
    THEN LET err == ClientDoErr(reply.transport) IN
         IF "net.Error" \in err.wraps \/ "context.DeadlineExceeded" \in err.wraps
         THEN Outcome(NilResult, elapsed,
                      Err(<<"connection failed: ">> \o err.text, err.wraps))
         ELSE Outcome(NilResult, elapsed, err)
    ELSE IF reply.code \in {502, 503, 504}
    THEN Outcome(NilResult, elapsed, Err(<<HTTPStatusText(reply.code)>>, {}))
    ELSE IF reply.code # 200
    THEN Outcome(NilResult, elapsed,
                 Err(<<"API error ", StatusCodeText(reply.code), ": ">>
                       \o reply.errBody, {}))
    ELSE IF reply.envelope = "readfail"
    THEN Outcome(NilResult, elapsed, Err(<<reply.content>>, {}))
    ELSE IF reply.envelope = "badjson"
    THEN Outcome(NilResult, elapsed, Err(<<"invalid character">>, {"json.SyntaxError"}))
    ELSE IF reply.envelope = "nochoices"
    THEN Outcome(NilResult, elapsed, Err(<<"empty response from API">>, {}))
    ELSE IF reply.content = "notjson"
    THEN Outcome(NilResult, elapsed,
                 Err(<<"failed to parse LLM response: ", "invalid character">>,
                     {"json.SyntaxError"}))
    ELSE Outcome(NilResult, elapsed, NilErr)

\* LLMClient.tryEndpoint against endpoint ep, when the provider answers
\* reply and the attempt takes elapsed ms.
tryEndpoint(ep, reply, elapsed) ==
    IF ~URLParses(ep.URL)
    THEN Outcome(NilResult, 0, Err(<<"parse ", "invalid URL">>, {}))
    ELSE IF reply.transport # ""
    THEN LET err == ClientDoErr(reply.transport) IN
         IF "net.Error" \in err.wraps \/ "context.DeadlineExceeded" \in err.wraps
         THEN Outcome(NilResult, elapsed,
                      Err(<<"connection failed: ">> \o err.text, err.wraps))
         ELSE Outcome(NilResult, elapsed, err)
    ELSE IF reply.code \in {502, 503, 504}
    THEN Outcome(NilResult, elapsed, Err(<<HTTPStatusText(reply.code)>>, {}))
    ELSE IF reply.code # 200
    THEN Outcome(NilResult, elapsed,
                 Err(<<"API error ", StatusCodeText(reply.code), ": ">>
                       \o reply.errBody, {}))
    ELSE IF reply.envelope = "readfail"
    THEN Outcome(NilResult, elapsed, Err(<<reply.content>>, {}))
    ELSE IF reply.envelope = "badjson"
    THEN Outcome(NilResult, elapsed, Err(<<"invalid character">>, {"json.SyntaxError"}))
    ELSE IF reply.envelope = "nochoices"
    THEN Outcome(NilResult, elapsed, Err(<<"empty response from API">>, {}))
    ELSE IF reply.content = "notjson"
    THEN Outcome(NilResult, elapsed,
                 Err(<<"failed to parse LLM response: ", "invalid character">>,
                     {"json.SyntaxError"}))
    ELSE Outcome(reply.result, elapsed, NilErr)

\* isUnavailableErr: a transient availability issue, decided on the text
isUnavailableErr(err) ==
    IF err.isNil THEN FALSE
    ELSE \/ Contains(err.text, "connection")
         \/ Contains(err.text, "HTTP 502")
         \/ Contains(err.text, "HTTP 503")
         \/ Contains(err.text, "HTTP 504")

\* IsUnavailable: errors.Is(err, ErrLLMUnavailable)
IsUnavailable(err) == "ErrLLMUnavailable" \in err.wraps

\* Variant: the sentinel is formatted with %v, so it is not wrapped.
AllUnavailableErr_NotWrapped(lastErr) ==
    Err(ErrLLMUnavailable.text \o <<": ">> \o lastErr.text, {})

\* fmt.Errorf("%w: %v", ErrLLMUnavailable, lastErr)
AllUnavailableErr(lastErr) ==
    Err(ErrLLMUnavailable.text \o <<": ">> \o lastErr.text, ErrLLMUnavailable.wraps)

\* Variant: the empty chain is reported as the all-unavailable error.
NoEndpointsErr_Unavailable ==
    Err(ErrLLMUnavailable.text \o <<": ">> \o <<"no LLM endpoints configured">>,
        ErrLLMUnavailable.wraps)

\* errors.New("no LLM endpoints configured")
NoEndpointsErr == Err(<<"no LLM endpoints configured">>, {})

----------------------------------------------------------------------------
\* Inbound requests (the environment of IngestHandler.ServeHTTP)
\*   Authorization : the header value, <<>> when absent
\*   ContentLength : r.ContentLength, -1 when unknown; need not be truthful
\*   bodyLen       : bytes r.Body yields
\*   bodyErr       : r.Body ends in a read error instead of EOF
\*   doc           : what the complete body decodes to

AuthHeaders ==
    { <<>>, <<"Bearer ", apiKey>>, <<"Bearer ", "wrong">>, <<"Basic ", apiKey>> }

Hostnames == {"h1"}
\* line k of the log is the text "line k"
LineText(k) == <<"line ", ToString(k)>>

\* the lines arrays <<line 1, ..., line n>> for n up to MaxDeltaLines, and
\* the array <<line 2, line 1>> that has two lines in the other order
LineSeqs ==
    { [k \in 1..n |-> LineText(k)] : n \in 0..MaxDeltaLines }
    \cup { <<LineText(2), LineText(1)>> }

\* protocol.DmesgDelta as decoded; valid = FALSE when json.Unmarshal fails
Garbage == [valid |-> FALSE, Hostname |-> "", Lines |-> <<>>]
DmesgDelta(h, l) == [valid |-> TRUE, Hostname |-> h, Lines |-> l]
Docs == {Garbage} \cup { DmesgDelta(h, l) : h \in Hostnames, l \in LineSeqs }

\* The declared length is absent (-1), truthful, understated (0) or beyond
\* the maximum.  An empty body is no JSON document.
Requests ==
    { r \in [Authorization : AuthHeaders,
             ContentLength : -1..(maxPayloadBytes + 1),
             bodyLen       : 0..(maxPayloadBytes + 2),
             bodyErr       : BOOLEAN,
             doc           : Docs] :
        /\ r.ContentLength \in {-1, 0, r.bodyLen, maxPayloadBytes + 1}
        /\ r.bodyLen = 0 => r.doc = Garbage }

NoRequest ==
    [Authorization |-> <<>>, ContentLength |-> -1, bodyLen |-> 0,
     bodyErr |-> FALSE, doc |-> Garbage]

\* The response written to w: status code and body
Response(code, status, latency, text) ==
    [code |-> code, status |-> status, latency_ms |-> latency, text |-> text]
NoResponse == Response(0, "", 0, "")

\* Variant: the limit reader stops one byte early, so an oversized body is
\* cut to the maximum instead of being detected.
ReadAll_CutAtLimit(req, limit) ==
    [n   |-> IF req.bodyLen < limit - 1 THEN req.bodyLen ELSE limit - 1,
     err |-> req.bodyErr /\ req.bodyLen < limit - 1]

\* io.ReadAll(io.LimitReader(r.Body, limit)): bytes read and whether the
\* read failed.  The limit reader reports EOF once limit bytes were read, so
\* an error of r.Body is seen only when the body ends before the limit.
ReadAll(req, limit) ==
    [n   |-> IF req.bodyLen < limit THEN req.bodyLen ELSE limit,
     err |-> req.bodyErr /\ req.bodyLen < limit]

\* Variant: an empty Delta is analysed and stored like any other.
ServeHTTPChecks_NoSkip(req) ==
    LET auth == req.Authorization
        body == ReadAll(req, maxPayloadBytes + 1)
    IN  IF ~HasPrefix(auth, "Bearer ") \/ TrimPrefix(auth, "Bearer ") # <<apiKey>>
        THEN Response(401, "", 0, "Unauthorized")
        ELSE IF req.ContentLength > maxPayloadBytes
        THEN Response(413, "", 0, "Request Entity Too Large")
        ELSE IF body.err
        THEN Response(400, "", 0, "Failed to read body")
        ELSE IF body.n > maxPayloadBytes
        THEN Response(413, "", 0, "Request Entity Too Large")
        ELSE IF ~req.doc.valid
        THEN Response(400, "", 0, "Invalid JSON")
        ELSE IF FALSE
        THEN Response(200, "skipped", 0, "no lines")
        ELSE NoResponse

\* Variant: only the Bearer scheme is checked, not the credential.
ServeHTTPChecks_PrefixOnly(req) ==
    LET auth == req.Authorization
        body == ReadAll(req, maxPayloadBytes + 1)
    IN  IF ~HasPrefix(auth, "Bearer ")
        THEN Response(401, "", 0, "Unauthorized")
        ELSE IF req.ContentLength > maxPayloadBytes
        THEN Response(413, "", 0, "Request Entity Too Large")
        ELSE IF body.err
        THEN Response(400, "", 0, "Failed to read body")
        ELSE IF body.n > maxPayloadBytes
        THEN Response(413, "", 0, "Request Entity Too Large")
        ELSE IF ~req.doc.valid
        THEN Response(400, "", 0, "Invalid JSON")
        ELSE IF Len(req.doc.Lines) = 0
        THEN Response(200, "skipped", 0, "no lines")
        ELSE NoResponse

\* Variant: the error of json.Unmarshal is dropped; the Delta stays zero.
ServeHTTPChecks_DecodeErrorIgnored(req) ==
    LET auth == req.Authorization
        body == ReadAll(req, maxPayloadBytes + 1)
    IN  IF ~HasPrefix(auth, "Bearer ") \/ TrimPrefix(auth, "Bearer ") # <<apiKey>>
        THEN Response(401, "", 0, "Unauthorized")
        ELSE IF req.ContentLength > maxPayloadBytes
        THEN Response(413, "", 0, "Request Entity Too Large")
        ELSE IF body.err
        THEN Response(400, "", 0, "Failed to read body")
        ELSE IF body.n > maxPayloadBytes
        THEN Response(413, "", 0, "Request Entity Too Large")
        ELSE IF FALSE
        THEN Response(400, "", 0, "Invalid JSON")
        ELSE IF Len(req.doc.Lines) = 0
        THEN Response(200, "skipped", 0, "no lines")
        ELSE NoResponse

\* Variant: a request that declares its length is not measured again after
\* the read.
ServeHTTPChecks_TrustsContentLength(req) ==
    LET auth == req.Authorization
        body == ReadAll(req, maxPayloadBytes + 1)
    IN  IF ~HasPrefix(auth, "Bearer ") \/ TrimPrefix(auth, "Bearer ") # <<apiKey>>
        THEN Response(401, "", 0, "Unauthorized")
        ELSE IF req.ContentLength > maxPayloadBytes
        THEN Response(413, "", 0, "Request Entity Too Large")
        ELSE IF body.err
        THEN Response(400, "", 0, "Failed to read body")
        ELSE IF body.n > maxPayloadBytes /\ req.ContentLength < 0
        THEN Response(413, "", 0, "Request Entity Too Large")
        ELSE IF ~req.doc.valid
        THEN Response(400, "", 0, "Invalid JSON")
        ELSE IF Len(req.doc.Lines) = 0
        THEN Response(200, "skipped", 0, "no lines")
        ELSE NoResponse

\* Variant: the declared length is checked before the credential.
ServeHTTPChecks_SizeBeforeAuth(req) ==
    LET auth == req.Authorization
        body == ReadAll(req, maxPayloadBytes + 1)
    IN  IF req.ContentLength > maxPayloadBytes
        THEN Response(413, "", 0, "Request Entity Too Large")
        ELSE IF ~HasPrefix(auth, "Bearer ") \/ TrimPrefix(auth, "Bearer ") # <<apiKey>>
        THEN Response(401, "", 0, "Unauthorized")
        ELSE IF body.err
        THEN Response(400, "", 0, "Failed to read body")
        ELSE IF body.n > maxPayloadBytes
        THEN Response(413, "", 0, "Request Entity Too Large")
        ELSE IF ~req.doc.valid
        THEN Response(400, "", 0, "Invalid JSON")
        ELSE IF Len(req.doc.Lines) = 0
        THEN Response(200, "skipped", 0, "no lines")
        ELSE NoResponse

\* ServeHTTP up to the call of the LLM: the response of an early return, or
\* NoResponse when the request goes on to analysis.
ServeHTTPChecks(req) ==
    LET auth == req.Authorization
        body == ReadAll(req, maxPayloadBytes + 1)
    IN  IF ~HasPrefix(auth, "Bearer ") \/ TrimPrefix(auth, "Bearer ") # <<apiKey>>
        THEN Response(401, "", 0, "Unauthorized")
        ELSE IF req.ContentLength > maxPayloadBytes
        THEN Response(413, "", 0, "Request Entity Too Large")
        ELSE IF body.err
        THEN Response(400, "", 0, "Failed to read body")
        ELSE IF body.n > maxPayloadBytes
        THEN Response(413, "", 0, "Request Entity Too Large")
        ELSE IF ~req.doc.valid
        THEN Response(400, "", 0, "Invalid JSON")
        ELSE IF Len(req.doc.Lines) = 0
        THEN Response(200, "skipped", 0, "no lines")
        ELSE NoResponse

\* no query has been run; seen is the number of rows the table had when
\* the query ran, rows are the rows the SELECT produced, results what the
\* method returned for them, counts the map StatusCounts returned
NoQuery ==
    [op |-> "", hostname |-> "", limit |-> 0, seen |-> 0, rows |-> <<>>,
     results |-> <<>>, counts |-> <<>>]

----------------------------------------------------------------------------
\* The agent (internal/agent).  A line of the kernel log is [n, ts]: the
\* n-th line the kernel logged, with the timestamp dmesg -T prints for it,
\* in seconds; 0 is the zero time.

MaxLines    == 2    \* const MaxLines (500 in the source)
MaxLogLines == 3    \* lines the kernel logs

\* nothing has come back from a.client.Do yet
NoReply == [err |-> FALSE, StatusCode |-> 0]

\* time.Time in the agent: sec whole seconds after the zero time, nsec the
\* fraction of a second, offset the zone offset of its location in hours
AgentTime(sec, nsec, offset) == [sec |-> sec, nsec |-> nsec, offset |-> offset]

\* time.Time{}
ZeroTime == AgentTime(0, 0, 0)

\* a.After(b)
After(a, b) == a.sec > b.sec \/ (a.sec = b.sec /\ a.nsec > b.nsec)

\* ts.Format(time.RFC3339Nano): the local date-time digits, the fraction
\* (printed only when it is not zero) and the zone suffix
FormatRFC3339Nano(ts) ==
    [local |-> ts.sec + 3600 * ts.offset,
     frac  |-> ts.nsec,
     zone  |-> IF ts.offset = 0 THEN "Z"
               ELSE IF ts.offset > 0 THEN "+" ELSE "-",
     hours |-> IF ts.offset >= 0 THEN ts.offset ELSE 0 - ts.offset]

\* time.Parse(time.RFC3339Nano, text) of a text that Format printed
ParseRFC3339Nano(text) ==
    LET offset == IF text.zone = "-" THEN 0 - text.hours ELSE text.hours
    IN  AgentTime(text.local - 3600 * offset, text.frac, offset)

\* the text of a state file that is not one Format printed
NoText == [local |-> 0, frac |-> 0, zone |-> "", hours |-> 0]

\* the state file does not exist
NoStateFile == [kind |-> "missing", text |-> NoText]

\* state files that hold no timestamp: one of other text, an empty one, and
\* one that os.ReadFile cannot read
CorruptFile == [kind |-> "corrupt", text |-> NoText]
EmptyFile == [kind |-> "empty", text |-> NoText]
UnreadableFile == [kind |-> "unreadable", text |-> NoText]

\* Variant: the fraction of a second is not written (time.RFC3339).
WriteLastTimestamp_WholeSeconds(ts) ==
    [kind |-> "timestamp", text |-> [FormatRFC3339Nano(ts) EXCEPT !.frac = 0]]

\* WriteLastTimestamp(path, ts): the content of the file it wrote
WriteLastTimestamp(ts) ==
    [kind |-> "timestamp", text |-> FormatRFC3339Nano(ts)]

\* ReadLastTimestamp(path): the zero time and no error when the file is
\* missing or corrupt, an error when it cannot be read
ReadLastTimestamp(file) ==
    IF file = NoStateFile THEN [ts |-> ZeroTime, err |-> FALSE]
    ELSE IF file = UnreadableFile THEN [ts |-> ZeroTime, err |-> TRUE]
    ELSE IF file \in {CorruptFile, EmptyFile} THEN [ts |-> ZeroTime, err |-> FALSE]
    ELSE [ts |-> ParseRFC3339Nano(file.text), err |-> FALSE]

\* The agent between two collections.  clock is the second of the kernel's
\* last line; reply is what the last a.client.Do returned, unsent the lines
\* of the last send when it failed, and before the state file as it was when
\* the last send began (history); delivered the numbers of the lines in the
\* Deltas the collector answered with 200, and overflowed whether a
\* collection has cut its new lines to MaxLines (history); call is the
\* invocation of ServeHTTP that received the Delta being sent, 0 for none.
AgentIdle ==
    [pc |-> "idle", stateFile |-> NoStateFile, log |-> <<>>, logged |-> 0,
     clock |-> 1, lines |-> <<>>, truncated |-> FALSE,
     lastSeen |-> ZeroTime, readErr |-> FALSE, latestTs |-> ZeroTime,
     reply |-> NoReply,
     unsent |-> <<>>, before |-> NoStateFile,
     delivered |-> {}, overflowed |-> FALSE, call |-> 0]

\* the ts of a line that carries no timestamp dmesg -T could have printed
NoTimestamp == -1

\* ParseDmesgTimestamp(line): the timestamp in the line's prefix, which has
\* whole seconds and no zone, or an error
ParseDmesgTimestamp(line) ==
    [err |-> line.ts = NoTimestamp,
     ts  |-> IF line.ts = NoTimestamp THEN ZeroTime ELSE AgentTime(line.ts, 0, 0)]

RECURSIVE Latest(_)
\* the latest timestamp among lines, the zero time for none
Latest(lines) ==
    IF lines = <<>> THEN ZeroTime
    ELSE LET rest == Latest(Tail(lines))
             ts   == ParseDmesgTimestamp(lines[1]).ts
         IN  IF After(ts, rest) THEN ts ELSE rest

\* Variant: a line of the second of lastSeen counts as new.
FilterNewLines_AtOrAfter(lines, lastSeen) ==
    LET filtered == SelectSeq(lines, LAMBDA l :
                        /\ ~ParseDmesgTimestamp(l).err
                        /\ ~After(lastSeen, ParseDmesgTimestamp(l).ts))
    IN  [filtered |-> filtered, latest |-> Latest(filtered)]

\* FilterNewLines(lines, lastSeen): the lines that parse and are after
\* lastSeen, and the latest of their timestamps
FilterNewLines(lines, lastSeen) ==
    LET filtered == SelectSeq(lines, LAMBDA l :
                        /\ ~ParseDmesgTimestamp(l).err
                        /\ After(ParseDmesgTimestamp(l).ts, lastSeen))
    IN  [filtered |-> filtered, latest |-> Latest(filtered)]

\* Variant: the first MaxLines lines are kept.
CapLines_KeepsOldest(lines) ==
    IF Len(lines) <= MaxLines THEN [lines |-> lines, truncated |-> FALSE]
    ELSE [lines |-> SubSeq(lines, 1, MaxLines), truncated |-> TRUE]

\* CapLines(lines): at most MaxLines from the end of the slice, and whether
\* lines were cut
CapLines(lines) ==
    IF Len(lines) <= MaxLines THEN [lines |-> lines, truncated |-> FALSE]
    ELSE [lines |-> SubSeq(lines, Len(lines) - MaxLines + 1, Len(lines)),
          truncated |-> TRUE]

\* What a.client.Do returns: a transport error (collector unreachable,
\* timeout) or a response with a status code
SendReplies ==
    { [err |-> TRUE, StatusCode |-> 0] }
    \cup { [err |-> FALSE, StatusCode |-> code] : code \in {200, 401, 413, 500} }

\* Variant: every response of the collector counts as delivered.
send_AnyResponseIsSuccess(reply) ==
    IF reply.err THEN "unreachable" ELSE "200"

\* Agent.send: nil ("200") only for a response with status 200
send(reply) ==
    IF reply.err THEN "unreachable"
    ELSE IF reply.StatusCode # 200 THEN "collector returned"
    ELSE "200"

----------------------------------------------------------------------------
\* One invocation of ServeHTTP.
\*   pc           : "idle" (no request yet), "analyze" (inside LLMClient.Analyze, before the
\*                  attempt on endpoint i), "store" (before InsertResult),
\*                  "done" (response written)
\*   i            : loop index of Analyze, 1-based
\*   totalLatency, lastErr : locals of Analyze
\*   result, latency, llmErr : what Analyze returned to ServeHTTP
\*   dbErr        : history: InsertResult returned an error
\*   attempts     : history: the outbound attempts of this invocation, each
\*                  with the provider's reply and what tryEndpoint returned
\*   cancelledAt  : -1 while r.Context() is live; once it is cancelled, the
\*                  number of attempts that had completed by then

IdleCall ==
    [pc |-> "idle", req |-> NoRequest, i |-> 0,
     totalLatency |-> 0, lastErr |-> NilErr,
     result |-> NilResult, latency |-> 0, llmErr |-> NilErr,
     dbErr |-> FALSE, attempts |-> <<>>, cancelledAt |-> -1,
     resp |-> NoResponse]

\* Variant: the client remembers the endpoints that finished invocations
\* found unavailable and starts the chain behind them.
ServeHTTPBegin_SkipFailedEndpoints(req, eps, nilClient) ==
    LET early == ServeHTTPChecks(req)
        st    == [IdleCall EXCEPT !.req = req]
        bad   == { k \in 1..Len(eps) :
                     \E d \in DOMAIN calls :
                         /\ calls[d].pc = "done"
                         /\ \E j \in 1..Len(calls[d].attempts) :
                               /\ calls[d].attempts[j].ep = k
                               /\ isUnavailableErr(calls[d].attempts[j].err) }
        good  == (1..Len(eps)) \ bad
        first == IF good = {} THEN 1
                 ELSE CHOOSE k \in good : \A m \in good : k <= m
    IN  IF early # NoResponse
        THEN [st EXCEPT !.pc = "done", !.resp = early]
        ELSE IF nilClient
        THEN [st EXCEPT !.pc = "store"]
        ELSE IF Len(eps) = 0
        THEN [st EXCEPT !.pc = "store", !.llmErr = NoEndpointsErr]
        ELSE [st EXCEPT !.pc = "analyze", !.i = first]

\* Lines 33-79 of ServeHTTP for request req: the early returns, the nil
\* client, and the entry of Analyze (empty endpoint list).
ServeHTTPBegin(req, eps, nilClient) ==
    LET early == ServeHTTPChecks(req)
        st    == [IdleCall EXCEPT !.req = req]
    IN  IF early # NoResponse
        THEN [st EXCEPT !.pc = "done", !.resp = early]
        ELSE IF nilClient
        THEN [st EXCEPT !.pc = "store"]
        ELSE IF Len(eps) = 0
        THEN [st EXCEPT !.pc = "store", !.llmErr = NoEndpointsErr]
        ELSE [st EXCEPT !.pc = "analyze", !.i = 1]

\* Variant: totalLatency is assigned, not accumulated.
Analyze_LastLatency(st, eps, reply, elapsed) ==
    LET o     == tryEndpoint(eps[st.i], reply, elapsed)
        total == o.latency
        tried == [st EXCEPT !.totalLatency = total,
                            !.attempts = Append(@, [ep |-> st.i, reply |-> reply,
                                                    elapsed |-> elapsed,
                                                    latency |-> o.latency,
                                                    result |-> o.result, err |-> o.err])]
    IN  IF o.err.isNil
        THEN [tried EXCEPT !.pc = "store", !.result = o.result,
                           !.latency = total, !.llmErr = NilErr]
        ELSE IF isUnavailableErr(o.err)
        THEN IF st.i < Len(eps)
             THEN [tried EXCEPT !.lastErr = o.err, !.i = st.i + 1]
             ELSE [tried EXCEPT !.lastErr = o.err, !.pc = "store",
                                !.latency = total,
                                !.llmErr = AllUnavailableErr(o.err)]
        ELSE [tried EXCEPT !.lastErr = o.err, !.pc = "store",
                           !.latency = total, !.llmErr = o.err]

\* Variant: every failed attempt moves on to the next endpoint.
Analyze_FallbackOnAnyError(st, eps, reply, elapsed) ==
    LET o     == tryEndpoint(eps[st.i], reply, elapsed)
        total == st.totalLatency + o.latency
        tried == [st EXCEPT !.totalLatency = total,
                            !.attempts = Append(@, [ep |-> st.i, reply |-> reply,
                                                    elapsed |-> elapsed,
                                                    latency |-> o.latency,
                                                    result |-> o.result, err |-> o.err])]
    IN  IF o.err.isNil
        THEN [tried EXCEPT !.pc = "store", !.result = o.result,
                           !.latency = total, !.llmErr = NilErr]
        ELSE IF TRUE
        THEN IF st.i < Len(eps)
             THEN [tried EXCEPT !.lastErr = o.err, !.i = st.i + 1]
             ELSE [tried EXCEPT !.lastErr = o.err, !.pc = "store",
                                !.latency = total,
                                !.llmErr = AllUnavailableErr(o.err)]
        ELSE [tried EXCEPT !.lastErr = o.err, !.pc = "store",
                           !.latency = total, !.llmErr = o.err]

\* Variant: a terminal error that follows a fallback is reported as the
\* all-unavailable error.
Analyze_TerminalAfterFallbackWrapped(st, eps, reply, elapsed) ==
    LET o     == tryEndpoint(eps[st.i], reply, elapsed)
        total == st.totalLatency + o.latency
        tried == [st EXCEPT !.totalLatency = total,
                            !.attempts = Append(@, [ep |-> st.i, reply |-> reply,
                                                    elapsed |-> elapsed,
                                                    latency |-> o.latency,
                                                    result |-> o.result, err |-> o.err])]
    IN  IF o.err.isNil
        THEN [tried EXCEPT !.pc = "store", !.result = o.result,
                           !.latency = total, !.llmErr = NilErr]
        ELSE IF isUnavailableErr(o.err)
        THEN IF st.i < Len(eps)
             THEN [tried EXCEPT !.lastErr = o.err, !.i = st.i + 1]
             ELSE [tried EXCEPT !.lastErr = o.err, !.pc = "store",
                                !.latency = total,
                                !.llmErr = AllUnavailableErr(o.err)]
        ELSE [tried EXCEPT !.lastErr = o.err, !.pc = "store",
                           !.latency = total,
                           !.llmErr = IF st.lastErr.isNil THEN o.err
                                      ELSE AllUnavailableErr(o.err)]

\* Variant: totalLatency is a field of the client, shared by the calls that
\* are under way.
Analyze_SharedTotal(st, eps, reply, elapsed) ==
    LET o      == tryEndpoint(eps[st.i], reply, elapsed)
        others == { d \in DOMAIN calls : calls[d].pc = "analyze" /\ calls[d] # st }
        shared == IF others = {} THEN 0
                  ELSE calls[CHOOSE d \in others : TRUE].totalLatency
        total  == st.totalLatency + shared + o.latency
        tried  == [st EXCEPT !.totalLatency = total,
                             !.attempts = Append(@, [ep |-> st.i, reply |-> reply,
                                                     elapsed |-> elapsed,
                                                     latency |-> o.latency,
                                                     result |-> o.result, err |-> o.err])]
    IN  IF o.err.isNil
        THEN [tried EXCEPT !.pc = "store", !.result = o.result,
                           !.latency = total, !.llmErr = NilErr]
        ELSE IF isUnavailableErr(o.err)
        THEN IF st.i < Len(eps)
             THEN [tried EXCEPT !.lastErr = o.err, !.i = st.i + 1]
             ELSE [tried EXCEPT !.lastErr = o.err, !.pc = "store",
                                !.latency = total,
                                !.llmErr = AllUnavailableErr(o.err)]
        ELSE [tried EXCEPT !.lastErr = o.err, !.pc = "store",
                           !.latency = total, !.llmErr = o.err]

\* Variant: an unavailable endpoint is tried a second time before the loop
\* moves on.
Analyze_RetriesSameEndpoint(st, eps, reply, elapsed) ==
    LET o     == tryEndpoint(eps[st.i], reply, elapsed)
        total == st.totalLatency + o.latency
        tried == [st EXCEPT !.totalLatency = total,
                            !.attempts = Append(@, [ep |-> st.i, reply |-> reply,
                                                    elapsed |-> elapsed,
                                                    latency |-> o.latency,
                                                    result |-> o.result, err |-> o.err])]
        again == st.attempts = <<>> \/ st.attempts[Len(st.attempts)].ep # st.i
    IN  IF o.err.isNil
        THEN [tried EXCEPT !.pc = "store", !.result = o.result,
                           !.latency = total, !.llmErr = NilErr]
        ELSE IF isUnavailableErr(o.err)
        THEN IF again
             THEN [tried EXCEPT !.lastErr = o.err]
             ELSE IF st.i < Len(eps)
             THEN [tried EXCEPT !.lastErr = o.err, !.i = st.i + 1]
             ELSE [tried EXCEPT !.lastErr = o.err, !.pc = "store",
                                !.latency = total,
                                !.llmErr = AllUnavailableErr(o.err)]
        ELSE [tried EXCEPT !.lastErr = o.err, !.pc = "store",
                           !.latency = total, !.llmErr = o.err]

\* One iteration of the loop of LLMClient.Analyze: the attempt on endpoint
\* st.i, answered by reply after elapsed ms, and what the loop does next.
Analyze(st, eps, reply, elapsed) ==
    LET o     == tryEndpoint(eps[st.i], reply, elapsed)
        total == st.totalLatency + o.latency
        tried == [st EXCEPT !.totalLatency = total,
                            !.attempts = Append(@, [ep |-> st.i, reply |-> reply,
                                                    elapsed |-> elapsed,
                                                    latency |-> o.latency,
                                                    result |-> o.result, err |-> o.err])]
    IN  IF o.err.isNil
        THEN [tried EXCEPT !.pc = "store", !.result = o.result,
                           !.latency = total, !.llmErr = NilErr]
        ELSE IF isUnavailableErr(o.err)
        THEN IF st.i < Len(eps)
             THEN [tried EXCEPT !.lastErr = o.err, !.i = st.i + 1]
             ELSE [tried EXCEPT !.lastErr = o.err, !.pc = "store",
                                !.latency = total,
                                !.llmErr = AllUnavailableErr(o.err)]
        ELSE [tried EXCEPT !.lastErr = o.err, !.pc = "store",
                           !.latency = total, !.llmErr = o.err]

\* json.Marshal(r.Issues): a nil slice marshals to null
MarshalIssues(issues) ==
    IF issues.isNil THEN <<"null">> ELSE <<"[">> \o issues.items \o <<"]">>

\* Variant: the lines are joined without the newline separator.
StoredResult_JoinedWithoutNewline(st) ==
    LET status ==
            IF ~st.llmErr.isNil
            THEN IF IsUnavailable(st.llmErr) THEN "llm_unavailable" ELSE "error"
            ELSE IF ~st.result.isNil THEN st.result.Status
            ELSE "error"
        issues ==
            IF st.llmErr.isNil /\ ~st.result.isNil THEN st.result.Issues ELSE NilIssues
    IN  [Timestamp |-> now,
         Hostname |-> st.req.doc.Hostname,
         RawDmesg |-> Join(st.req.doc.Lines, ""),
         APILatencyMs |-> st.latency,
         Status |-> status,
         Issues |-> issues]

\* Variant: every analysis error is stored as error.
StoredResult_EveryFailureIsError(st) ==
    LET status ==
            IF ~st.llmErr.isNil
            THEN "error"
            ELSE IF ~st.result.isNil THEN st.result.Status
            ELSE "error"
        issues ==
            IF st.llmErr.isNil /\ ~st.result.isNil THEN st.result.Issues ELSE NilIssues
    IN  [Timestamp |-> now,
         Hostname |-> st.req.doc.Hostname,
         RawDmesg |-> Join(st.req.doc.Lines, "\n"),
         APILatencyMs |-> st.latency,
         Status |-> status,
         Issues |-> issues]

\* Variant: the latency is recorded only when the analysis succeeded.
StoredResult_LatencyOnlyOnSuccess(st) ==
    LET status ==
            IF ~st.llmErr.isNil
            THEN IF IsUnavailable(st.llmErr) THEN "llm_unavailable" ELSE "error"
            ELSE IF ~st.result.isNil THEN st.result.Status
            ELSE "error"
        issues ==
            IF st.llmErr.isNil /\ ~st.result.isNil THEN st.result.Issues ELSE NilIssues
    IN  [Timestamp |-> now,
         Hostname |-> st.req.doc.Hostname,
         RawDmesg |-> Join(st.req.doc.Lines, "\n"),
         APILatencyMs |-> IF st.llmErr.isNil THEN st.latency ELSE 0,
         Status |-> status,
         Issues |-> issues]

\* The protocol.StoredResult ServeHTTP builds from what Analyze returned
\* (lines 81-103); Timestamp is time.Now().
StoredResult(st) ==
    LET status ==
            IF ~st.llmErr.isNil
            THEN IF IsUnavailable(st.llmErr) THEN "llm_unavailable" ELSE "error"
            ELSE IF ~st.result.isNil THEN st.result.Status
            ELSE "error"
        issues ==
            IF st.llmErr.isNil /\ ~st.result.isNil THEN st.result.Issues ELSE NilIssues
    IN  [Timestamp |-> now,
         Hostname |-> st.req.doc.Hostname,
         RawDmesg |-> Join(st.req.doc.Lines, "\n"),
         APILatencyMs |-> st.latency,
         Status |-> status,
         Issues |-> issues]

\* Variant: the identifier is derived from the record's timestamp, in seconds.
InsertResult_IdFromTimestamp(r, id) ==
    [id |-> r.Timestamp.t \div 2, timestamp |-> FormatRFC3339(r.Timestamp),
     hostname |-> r.Hostname, status |-> r.Status,
     issues |-> MarshalIssues(r.Issues), raw_dmesg |-> r.RawDmesg,
     api_latency_ms |-> r.APILatencyMs]

\* The row DB.InsertResult writes for r; id is assigned by AUTOINCREMENT
InsertResult(r, id) ==
    [id |-> id, timestamp |-> FormatRFC3339(r.Timestamp),
     hostname |-> r.Hostname, status |-> r.Status,
     issues |-> MarshalIssues(r.Issues), raw_dmesg |-> r.RawDmesg,
     api_latency_ms |-> r.APILatencyMs]

\* Comparison of two timestamp columns as SQLite compares TEXT: byte by
\* byte, so the date-time digits first, then the zone suffix, where
\* "+" < "-" < "Z" and equal signs compare by the digits of the offset.
TextLess(a, b) ==
    LET rank(z) == IF z = "+" THEN 0 ELSE IF z = "-" THEN 1 ELSE 2 IN
    \/ a.local < b.local
    \/ /\ a.local = b.local
       /\ \/ rank(a.zone) < rank(b.zone)
          \/ rank(a.zone) = rank(b.zone) /\ a.hours < b.hours

\* the orders in which the rows numbered by S may be listed
OrderingsOf(S) ==
    { p \in [1..Cardinality(S) -> S] :
        \A i, j \in 1..Cardinality(S) : i # j => p[i] # p[j] }

\* the rows a SELECT ... ORDER BY timestamp DESC LIMIT limit over the rows
\* numbered by S may return: SQL leaves the order of rows with equal
\* timestamp text open
OrderByTimestampDesc(S, limit) ==
    { [k \in 1..(IF limit < Cardinality(S) THEN limit ELSE Cardinality(S))
          |-> db[p[k]]] :
        p \in { q \in OrderingsOf(S) :
                  \A i, j \in 1..Cardinality(S) :
                      i < j => ~TextLess(db[q[i]].timestamp, db[q[j]].timestamp) } }

\* DB.QueryByHostname(hostname, limit): the results it may return
QueryByHostname(hostname, limit) ==
    OrderByTimestampDesc({ k \in 1..Len(db) : db[k].hostname = hostname }, limit)

\* DB.QueryNonOK(limit): the rows its SELECT may produce
QueryNonOK(limit) ==
    OrderByTimestampDesc({ k \in 1..Len(db) : db[k].status # "ok" }, limit)

\* time.Parse(time.RFC3339, text): the instant of the text, which carries
\* whole seconds, in the zone of its suffix
ParseRFC3339(text) ==
    LET offset == IF text.zone = "-" THEN 0 - text.hours ELSE text.hours
    IN  Time(2 * (text.local - 3600 * offset), offset)

\* json.Unmarshal of the issues column into r.Issues: null leaves the nil
\* slice, an array gives its elements
UnmarshalIssues(text) ==
    IF text = <<"null">> THEN NilIssues
    ELSE [isNil |-> FALSE, items |-> SubSeq(text, 2, Len(text) - 1)]

\* Variant: the issues column is not read back.
scanResults_IssuesDropped(rows) ==
    [k \in 1..Len(rows) |->
        [ID |-> rows[k].id,
         Timestamp |-> ParseRFC3339(rows[k].timestamp),
         Hostname |-> rows[k].hostname,
         Status |-> rows[k].status,
         Issues |-> NilIssues,
         RawDmesg |-> rows[k].raw_dmesg,
         APILatencyMs |-> rows[k].api_latency_ms]]

\* scanResults(rows): the StoredResults built from the rows of a SELECT
scanResults(rows) ==
    [k \in 1..Len(rows) |->
        [ID |-> rows[k].id,
         Timestamp |-> ParseRFC3339(rows[k].timestamp),
         Hostname |-> rows[k].hostname,
         Status |-> rows[k].status,
         Issues |-> UnmarshalIssues(rows[k].issues),
         RawDmesg |-> rows[k].raw_dmesg,
         APILatencyMs |-> rows[k].api_latency_ms]]

\* Variant: COUNT(DISTINCT hostname) in place of COUNT(*).
StatusCounts_DistinctHosts ==
    [s \in { db[k].status : k \in 1..Len(db) } |->
        Cardinality({ db[k].hostname : k \in { j \in 1..Len(db) : db[j].status = s } })]

\* DB.StatusCounts(): SELECT status, COUNT(*) ... GROUP BY status, one map
\* entry per group
StatusCounts ==
    [s \in { db[k].status : k \in 1..Len(db) } |->
        Cardinality({ k \in 1..Len(db) : db[k].status = s })]

\* Variant: the error of InsertResult is logged but the handler goes on.
ServeHTTPEnd_InsertErrorIgnored(st, stored, insertFailed) ==
    [st EXCEPT !.pc = "done",
               !.resp = Response(200, stored.Status, st.latency, "")]

\* Variant: the response carries the status of the analysis result, not
\* that of the stored record.
ServeHTTPEnd_ReportsResultStatus(st, stored, insertFailed) ==
    IF insertFailed
    THEN [st EXCEPT !.pc = "done",
                    !.resp = Response(500, "", 0, "Internal error")]
    ELSE [st EXCEPT !.pc = "done",
                    !.resp = Response(200, st.result.Status, st.latency, "")]

\* Lines 105-115 of ServeHTTP: the response after InsertResult returned
ServeHTTPEnd(st, stored, insertFailed) ==
    IF insertFailed
    THEN [st EXCEPT !.pc = "done",
                    !.resp = Response(500, "", 0, "Internal error")]
    ELSE [st EXCEPT !.pc = "done",
                    !.resp = Response(200, stored.Status, st.latency, "")]

----------------------------------------------------------------------------
\* Initial state: the collector as constructed.  The results table is empty
\* or holds a row of an earlier run (CREATE TABLE IF NOT EXISTS).  Spec
\* follows one invocation of ServeHTTP from the arrival of its request.

\* the StoredResult that run gave to InsertResult
SeedRecord ==
    [Timestamp |-> Time(0, 0), Hostname |-> "h0", RawDmesg |-> <<"old">>,
     APILatencyMs |-> 0, Status |-> "ok", Issues |-> EmptyIssues]

SeedRow ==
    [id |-> 1, timestamp |-> FormatRFC3339(Time(0, 0)),
     hostname |-> "h0", status |-> "ok", issues |-> <<"[", "]">>,
     raw_dmesg |-> <<"old">>, api_latency_ms |-> 0]

CallIds == {1}

\* NewIngestHandler is given an LLMClient over one of the endpoint lists, or
\* nil (as the handler tests do); a nil client has no endpoints.
Init ==
    /\ agent = AgentIdle
    /\ endpoints \in EndpointLists
    /\ llmNil \in BOOLEAN
    /\ llmNil => endpoints = <<>>
    /\ calls = [c \in CallIds |-> IdleCall]
    /\ \/ db = <<>> /\ dbSeq = 0 /\ owner = <<>> /\ inserted = <<>>
       \/ db = <<SeedRow>> /\ dbSeq = 1 /\ owner = <<0>>
          /\ inserted = <<SeedRecord>>
    /\ dbClosed = FALSE
    /\ now = Time(2, 0)
    /\ prior = [c \in CallIds |-> {}]
    /\ queried = NoQuery

\* The request of invocation c arrives and ServeHTTP runs up to its first
\* blocking call.
Receive(c, req) ==
    /\ calls[c].pc = "idle"
    /\ ~dbClosed
    /\ calls' = [calls EXCEPT ![c] = ServeHTTPBegin(req, endpoints, llmNil)]
    /\ prior' = [prior EXCEPT ![c] = { d \in DOMAIN calls : calls[d].pc = "done" }]
    /\ UNCHANGED <<agent, endpoints, llmNil, db, dbSeq, dbClosed, now, owner, inserted, queried>>

\* The attempt on the current endpoint completes.  Under a cancelled
\* context it can only fail on the cancellation.
Attempt(c, reply, elapsed) ==
    /\ calls[c].pc = "analyze"
    /\ calls[c].cancelledAt >= 0
       => reply \in CanceledReplies(Len(calls[c].attempts) = calls[c].cancelledAt)
    /\ calls' = [calls EXCEPT ![c] = Analyze(calls[c], endpoints, reply, elapsed)]
    /\ UNCHANGED <<agent, endpoints, llmNil, db, dbSeq, dbClosed, now, owner, inserted, prior, queried>>

\* Variant: the statement is an upsert keyed on the hostname, so a newer
\* record of a host takes the place of the older one.
Store_ReplacesRowOfHost(c, execFails) ==
    /\ calls[c].pc = "store"
    /\ LET stored == StoredResult(calls[c])
           failed == dbClosed \/ execFails
           same   == { k \in 1..Len(db) : db[k].hostname = stored.Hostname }
       IN  /\ calls' = [calls EXCEPT
                          ![c] = [ServeHTTPEnd(calls[c], stored, failed)
                                     EXCEPT !.dbErr = failed]]
           /\ IF failed
              THEN UNCHANGED <<db, dbSeq, owner, inserted>>
              ELSE IF same # {}
              THEN /\ db' = [k \in 1..Len(db) |->
                               IF k \in same THEN InsertResult(stored, db[k].id)
                               ELSE db[k]]
                   /\ owner' = [k \in 1..Len(db) |->
                                  IF k \in same THEN c ELSE owner[k]]
                   /\ inserted' = [k \in 1..Len(db) |->
                                     IF k \in same THEN stored ELSE inserted[k]]
                   /\ dbSeq' = dbSeq
              ELSE /\ db' = Append(db, InsertResult(stored, dbSeq + 1))
                   /\ dbSeq' = dbSeq + 1
                   /\ owner' = Append(owner, c)
                   /\ inserted' = Append(inserted, stored)
    /\ UNCHANGED <<agent, endpoints, llmNil, dbClosed, now, prior, queried>>

\* Variant: the handler gives up when the request's context is cancelled.
Store_SkippedWhenCancelled(c, execFails) ==
    /\ calls[c].pc = "store"
    /\ LET stored == StoredResult(calls[c])
           failed == dbClosed \/ execFails
       IN  IF calls[c].cancelledAt >= 0
           THEN /\ calls' = [calls EXCEPT ![c].pc = "done"]
                /\ UNCHANGED <<db, dbSeq, owner, inserted>>
           ELSE /\ calls' = [calls EXCEPT
                               ![c] = [ServeHTTPEnd(calls[c], stored, failed)
                                          EXCEPT !.dbErr = failed]]
                /\ IF failed
                   THEN UNCHANGED <<db, dbSeq, owner, inserted>>
                   ELSE /\ db' = Append(db, InsertResult(stored, dbSeq + 1))
                        /\ dbSeq' = dbSeq + 1
                        /\ owner' = Append(owner, c)
                        /\ inserted' = Append(inserted, stored)
    /\ UNCHANGED <<agent, endpoints, llmNil, dbClosed, now, prior, queried>>

\* h.db.InsertResult(stored) and the response.  The Exec fails on a closed
\* database and may fail on an open one (execFails); it is not given the
\* request's context.
Store(c, execFails) ==
    /\ calls[c].pc = "store"
    /\ LET stored == StoredResult(calls[c])
           failed == dbClosed \/ execFails
       IN  /\ calls' = [calls EXCEPT
                          ![c] = [ServeHTTPEnd(calls[c], stored, failed)
                                     EXCEPT !.dbErr = failed]]
           /\ IF failed
              THEN UNCHANGED <<db, dbSeq, owner, inserted>>
              ELSE /\ db' = Append(db, InsertResult(stored, dbSeq + 1))
                   /\ dbSeq' = dbSeq + 1
                   /\ owner' = Append(owner, c)
                   /\ inserted' = Append(inserted, stored)
    /\ UNCHANGED <<agent, endpoints, llmNil, dbClosed, now, prior, queried>>

\* DB.Close, run by Server.Run when the collector shuts down.  Shutdown
\* waits at most 10 s for running handlers, so the database may be closed
\* while an invocation is still analysing; no request arrives afterwards.
Close ==
    /\ ~dbClosed
    /\ dbClosed' = TRUE
    /\ UNCHANGED <<agent, endpoints, llmNil, calls, db, dbSeq, now, owner, inserted, prior, queried>>

\* The caller goes away while invocation c is analysing or about to store:
\* net/http cancels r.Context().
Cancel(c) ==
    /\ calls[c].pc \in {"analyze", "store"}
    /\ calls[c].cancelledAt = -1
    /\ calls' = [calls EXCEPT ![c].cancelledAt = Len(calls[c].attempts)]
    /\ UNCHANGED <<agent, endpoints, llmNil, db, dbSeq, dbClosed, now, owner, inserted, prior, queried>>

Next ==
    \/ \E c \in CallIds, req \in Requests : Receive(c, req)
    \/ \E c \in CallIds, reply \in Replies, elapsed \in Latencies :
          Attempt(c, reply, elapsed)
    \/ \E c \in CallIds, execFails \in BOOLEAN : Store(c, execFails)
    \/ Close

Spec == Init /\ [][Next]_vars

----------------------------------------------------------------------------
\* Several invocations of ServeHTTP on one handler.  net/http serves every
\* request in its own goroutine, all of them sharing the IngestHandler, its
\* LLMClient and its DB; an invocation may begin before or after another
\* one has finished.  The requests are accepted non-empty Deltas.

ManyCallIds == {1, 2}

ManyRequests ==
    { [Authorization |-> <<"Bearer ", apiKey>>, ContentLength |-> -1,
       bodyLen |-> maxPayloadBytes, bodyErr |-> FALSE, doc |-> d] :
        d \in { DmesgDelta("h1", <<LineText(1)>>),
                DmesgDelta("h2", <<LineText(1), LineText(2)>>) } }

\* a provider that is down, one that rejects the request, one that answers
ManyReplies ==
    { Reply("", 503, <<>>, "", "", NilResult),
      Reply("", 400, <<"bad request">>, "", "", NilResult),
      Reply("", 200, <<>>, "choices", "json", AnalysisResult("warning", OneIssue)) }

InitMany ==
    /\ agent = AgentIdle
    /\ endpoints \in { e \in EndpointLists : Len(e) >= 1 }
    /\ llmNil = FALSE
    /\ calls = [c \in ManyCallIds |-> IdleCall]
    /\ db = <<>> /\ dbSeq = 0 /\ owner = <<>> /\ inserted = <<>>
    /\ dbClosed = FALSE
    /\ now = Time(2, 0)
    /\ prior = [c \in ManyCallIds |-> {}]
    /\ queried = NoQuery

NextMany ==
    \/ \E c \in ManyCallIds, req \in ManyRequests : Receive(c, req)
    \/ \E c \in ManyCallIds, reply \in ManyReplies, elapsed \in Latencies :
          Attempt(c, reply, elapsed)
    \/ \E c \in ManyCallIds, execFails \in BOOLEAN : Store(c, execFails)

SpecMany == InitMany /\ [][NextMany]_vars

----------------------------------------------------------------------------
\* One invocation whose caller may go away at any moment after the request
\* was accepted.

CancelReplies == ManyReplies \cup CanceledReplies(TRUE)

InitCancel ==
    /\ agent = AgentIdle
    /\ endpoints \in { e \in EndpointLists : Len(e) >= 1 }
    /\ llmNil = FALSE
    /\ calls = [c \in CallIds |-> IdleCall]
    /\ \/ db = <<>> /\ dbSeq = 0 /\ owner = <<>> /\ inserted = <<>>
       \/ db = <<SeedRow>> /\ dbSeq = 1 /\ owner = <<0>>
          /\ inserted = <<SeedRecord>>
    /\ dbClosed = FALSE
    /\ now = Time(2, 0)
    /\ prior = [c \in CallIds |-> {}]
    /\ queried = NoQuery

NextCancel ==
    \/ \E c \in CallIds, req \in ManyRequests : Receive(c, req)
    \/ \E c \in CallIds, reply \in CancelReplies, elapsed \in Latencies :
          Attempt(c, reply, elapsed)
    \/ \E c \in CallIds : Cancel(c)
    \/ \E c \in CallIds, execFails \in BOOLEAN : Store(c, execFails)

SpecCancel == InitCancel /\ [][NextCancel]_vars

----------------------------------------------------------------------------
\* One invocation for an accepted non-empty Delta while the collector shuts
\* down.  Server.Run calls Shutdown with a deadline of 10 s and then closes
\* the database, whether or not the handlers have returned; an attempt may
\* take the 60 s of the LLM client's timeout.  The store has no failure of
\* its own here.

NextShutdown ==
    \/ \E c \in CallIds, req \in ManyRequests : Receive(c, req)
    \/ \E c \in CallIds, reply \in ManyReplies, elapsed \in Latencies :
          Attempt(c, reply, elapsed)
    \/ \E c \in CallIds : Store(c, FALSE)
    \/ Close

SpecShutdown == InitCancel /\ [][NextShutdown]_vars

----------------------------------------------------------------------------
\* One invocation under every request, with the three providers of
\* ManyReplies behind the endpoints.

NextIntake ==
    \/ \E c \in CallIds, req \in Requests : Receive(c, req)
    \/ \E c \in CallIds, reply \in ManyReplies, elapsed \in Latencies :
          Attempt(c, reply, elapsed)
    \/ \E c \in CallIds, execFails \in BOOLEAN : Store(c, execFails)

SpecIntake == Init /\ [][NextIntake]_vars

----------------------------------------------------------------------------
\* One invocation against a chain in which any endpoint may have been
\* configured with a URL that does not parse.

\* an endpoint whose configured URL url.Parse rejects
BadEndpoint(k) == [Endpoint(k) EXCEPT !.URL = <<"http://bad url">>]

\* the chains of up to MaxEndpoints endpoints, each good or bad
BadURLLists ==
    UNION { { e \in [1..n -> { Endpoint(k) : k \in 1..MaxEndpoints }
                               \cup { BadEndpoint(k) : k \in 1..MaxEndpoints }] :
                \A k \in 1..n : e[k] \in {Endpoint(k), BadEndpoint(k)} } :
            n \in 1..MaxEndpoints }

InitBadURL ==
    /\ agent = AgentIdle
    /\ endpoints \in BadURLLists
    /\ llmNil = FALSE
    /\ calls = [c \in CallIds |-> IdleCall]
    /\ db = <<>> /\ dbSeq = 0 /\ owner = <<>> /\ inserted = <<>>
    /\ dbClosed = FALSE
    /\ now = Time(2, 0)
    /\ prior = [c \in CallIds |-> {}]
    /\ queried = NoQuery

NextBadURL ==
    \/ \E c \in CallIds, req \in ManyRequests : Receive(c, req)
    \/ \E c \in CallIds, reply \in ManyReplies, elapsed \in Latencies :
          Attempt(c, reply, elapsed)
    \/ \E c \in CallIds, execFails \in BOOLEAN : Store(c, execFails)

SpecBadURL == InitBadURL /\ [][NextBadURL]_vars

----------------------------------------------------------------------------
\* The results table on its own: records are inserted as ServeHTTP builds
\* them, with Timestamp time.Now(), while the clock advances, and the table
\* is queried.  The collector's zone is UTC or UTC+1 and may change from one
\* reading of the clock to the next (daylight saving).

ZoneOffsets == {0, 1}

StoreHostnames == {"h1", "h2"}

\* the StoredResults given to InsertResult at time tm: what ServeHTTP
\* builds for an ok, a warning and a failed analysis of h1 and a warning
\* of h2
StoreRecords(tm) ==
    { [Timestamp |-> tm, Hostname |-> x[1], RawDmesg |-> <<"raw">>,
       APILatencyMs |-> IF x[2].Status = "warning" THEN MaxLatency ELSE 0,
       Status |-> x[2].Status, Issues |-> x[2].Issues] :
        x \in { <<"h1", AnalysisResult("ok", EmptyIssues)>>,
                <<"h1", AnalysisResult("warning", OneIssue)>>,
                <<"h1", AnalysisResult("error", NilIssues)>>,
                <<"h2", AnalysisResult("warning", OneIssue)>> } }

InitStore ==
    /\ agent = AgentIdle
    /\ endpoints = <<>>
    /\ llmNil = TRUE
    /\ calls = [c \in CallIds |-> IdleCall]
    /\ db = <<>> /\ dbSeq = 0 /\ owner = <<>> /\ inserted = <<>>
    /\ dbClosed = FALSE
    /\ now \in { Time(2, z) : z \in ZoneOffsets }
    /\ prior = [c \in CallIds |-> {}]
    /\ queried = NoQuery

\* half a second passes; the caller of the last query has let go of its
\* result
Tick(z) ==
    /\ now.t < 2 + MaxTicks
    /\ now' = Time(now.t + 1, z)
    /\ queried' = NoQuery
    /\ UNCHANGED <<agent, endpoints, llmNil, calls, db, dbSeq, dbClosed, owner, inserted,
                   prior>>

\* DB.InsertResult(r) succeeds
DBInsert(r) ==
    /\ Len(db) < MaxRows
    /\ ~dbClosed
    /\ db' = Append(db, InsertResult(r, dbSeq + 1))
    /\ dbSeq' = dbSeq + 1
    /\ owner' = Append(owner, 0)
    /\ inserted' = Append(inserted, r)
    /\ queried' = NoQuery
    /\ UNCHANGED <<agent, endpoints, llmNil, calls, dbClosed, now, prior>>

\* DB.QueryByHostname(hostname, limit) returns one of its possible results
DBQueryByHostname(hostname, limit) ==
    /\ ~dbClosed
    /\ \E res \in QueryByHostname(hostname, limit) :
          queried' = [op |-> "QueryByHostname", hostname |-> hostname,
                      limit |-> limit, seen |-> Len(db), rows |-> res,
                      results |-> scanResults(res), counts |-> <<>>]
    /\ UNCHANGED <<agent, endpoints, llmNil, calls, db, dbSeq, dbClosed, now, owner,
                   inserted, prior>>

\* DB.QueryNonOK(limit) returns one of its possible results
DBQueryNonOK(limit) ==
    /\ ~dbClosed
    /\ \E res \in QueryNonOK(limit) :
          queried' = [op |-> "QueryNonOK", hostname |-> "",
                      limit |-> limit, seen |-> Len(db), rows |-> res,
                      results |-> scanResults(res), counts |-> <<>>]
    /\ UNCHANGED <<agent, endpoints, llmNil, calls, db, dbSeq, dbClosed, now, owner,
                   inserted, prior>>

\* DB.StatusCounts() returns its map
DBStatusCounts ==
    /\ ~dbClosed
    /\ queried' = [op |-> "StatusCounts", hostname |-> "", limit |-> 0,
                   seen |-> Len(db), rows |-> <<>>, results |-> <<>>,
                   counts |-> StatusCounts]
    /\ UNCHANGED <<agent, endpoints, llmNil, calls, db, dbSeq, dbClosed, now, owner,
                   inserted, prior>>

NextStore ==
    \/ \E z \in ZoneOffsets : Tick(z)
    \/ \E r \in StoreRecords(now) : DBInsert(r)
    \/ \E h \in StoreHostnames, limit \in 1..MaxRows : DBQueryByHostname(h, limit)
    \/ \E limit \in 1..MaxRows : DBQueryNonOK(limit)
    \/ DBStatusCounts

SpecStore == InitStore /\ [][NextStore]_vars

----------------------------------------------------------------------------
\* The results table as TestDBStatusCounts uses it: records that carry a
\* status only are inserted for one host, and the counts are read.

MaxCountRows == 5

CountStatuses == {"ok", "warning", "critical"}

\* &protocol.StoredResult{Timestamp: time.Now(), Hostname: "test-host",
\* Status: s}
CountRecord(status) ==
    [Timestamp |-> now, Hostname |-> "test-host", RawDmesg |-> <<>>,
     APILatencyMs |-> 0, Status |-> status, Issues |-> NilIssues]

InitCounts ==
    /\ agent = AgentIdle
    /\ endpoints = <<>>
    /\ llmNil = TRUE
    /\ calls = [c \in CallIds |-> IdleCall]
    /\ db = <<>> /\ dbSeq = 0 /\ owner = <<>> /\ inserted = <<>>
    /\ dbClosed = FALSE
    /\ now = Time(2, 0)
    /\ prior = [c \in CallIds |-> {}]
    /\ queried = NoQuery

\* db.InsertResult(r) of the test's loop succeeds
DBInsertCounted(r) ==
    /\ Len(db) < MaxCountRows
    /\ ~dbClosed
    /\ db' = Append(db, InsertResult(r, dbSeq + 1))
    /\ dbSeq' = dbSeq + 1
    /\ owner' = Append(owner, 0)
    /\ inserted' = Append(inserted, r)
    /\ UNCHANGED <<agent, endpoints, llmNil, calls, dbClosed, now, prior, queried>>

NextCounts ==
    \/ \E s \in CountStatuses : DBInsertCounted(CountRecord(s))
    \/ DBStatusCounts

SpecCounts == InitCounts /\ [][NextCounts]_vars

----------------------------------------------------------------------------
\* The agent of one host against a collector that answers or is unreachable,
\* while the kernel logs lines and its ring buffer drops the oldest ones.
\* The agent starts without a state file or with the marker of an earlier
\* run.

\* the kernel logs a line, in the second of the previous one or the next
KernelLogs(ts) ==
    /\ agent.logged < MaxLogLines
    /\ agent' = [agent EXCEPT !.log = Append(@, [n |-> agent.logged + 1, ts |-> ts]),
                              !.logged = @ + 1,
                              !.clock = ts]
    /\ UNCHANGED <<endpoints, llmNil, calls, db, dbSeq, dbClosed, now, owner,
                   prior, queried, inserted>>

\* the ring buffer overwrites its oldest line
KernelDrops ==
    /\ agent.log # <<>>
    /\ agent' = [agent EXCEPT !.log = Tail(@)]
    /\ UNCHANGED <<endpoints, llmNil, calls, db, dbSeq, dbClosed, now, owner,
                   prior, queried, inserted>>

\* Agent.collect up to a.client.Do: with no new line it returns and nothing
\* changes
Collect ==
    /\ agent.pc = "idle"
    /\ ~ReadLastTimestamp(agent.stateFile).err
    /\ LET lastSeen == ReadLastTimestamp(agent.stateFile).ts
           new      == FilterNewLines(agent.log, lastSeen)
       IN  /\ Len(new.filtered) # 0
           /\ agent' = [agent EXCEPT !.pc = "sending",
                                     !.lastSeen = lastSeen,
                                     !.lines = CapLines(new.filtered).lines,
                                     !.truncated = CapLines(new.filtered).truncated,
                                     !.overflowed = @ \/ CapLines(new.filtered).truncated,
                                     !.latestTs = new.latest,
                                     !.before = agent.stateFile]
    /\ UNCHANGED <<endpoints, llmNil, calls, db, dbSeq, dbClosed, now, owner,
                   prior, queried, inserted>>

\* Variant: collect writes the state file whether or not send failed.
SendReturns_WritesAfterAnySend(reply, written) ==
    /\ agent.pc = "sending"
    /\ LET outcome == send(reply) IN
       /\ written \in {"written", "failed", "truncated"}
       /\ outcome # "200" => written = "written"
       /\ agent' = [agent EXCEPT
                       !.pc = "idle",
                       !.call = 0,
                       !.reply = reply,
                       !.unsent = IF outcome = "200" THEN <<>> ELSE agent.lines,
                       !.delivered = IF outcome = "200"
                                     THEN @ \cup { agent.lines[k].n :
                                                      k \in 1..Len(agent.lines) }
                                     ELSE @,
                       !.lines = <<>>,
                       !.stateFile = IF written = "failed" THEN @
                                     ELSE IF written = "truncated" THEN EmptyFile
                                     ELSE WriteLastTimestamp(agent.latestTs)]
    /\ UNCHANGED <<endpoints, llmNil, calls, db, dbSeq, dbClosed, now, owner,
                   prior, queried, inserted>>

\* a.client.Do returns reply and collect runs to its end: the state file is
\* written when send returned nil; a failed write leaves the file as it
\* was or empty
SendReturns(reply, written) ==
    /\ agent.pc = "sending"
    /\ LET outcome == send(reply) IN
       /\ written \in {"written", "failed", "truncated"}
       /\ outcome # "200" => written = "written"
       /\ agent' = [agent EXCEPT
                       !.pc = "idle",
                       !.call = 0,
                       !.reply = reply,
                       !.unsent = IF outcome = "200" THEN <<>> ELSE agent.lines,
                       !.delivered = IF outcome = "200"
                                     THEN @ \cup { agent.lines[k].n :
                                                      k \in 1..Len(agent.lines) }
                                     ELSE @,
                       !.lines = <<>>,
                       !.stateFile = IF outcome # "200" \/ written = "failed" THEN @
                                     ELSE IF written = "truncated" THEN EmptyFile
                                     ELSE WriteLastTimestamp(agent.latestTs)]
    /\ UNCHANGED <<endpoints, llmNil, calls, db, dbSeq, dbClosed, now, owner,
                   prior, queried, inserted>>

InitAgent ==
    /\ agent \in { [AgentIdle EXCEPT !.stateFile = f, !.before = f] :
                      f \in {NoStateFile, WriteLastTimestamp(AgentTime(1, 0, 0))} }
    /\ endpoints = <<>>
    /\ llmNil = TRUE
    /\ calls = [c \in CallIds |-> IdleCall]
    /\ db = <<>> /\ dbSeq = 0 /\ owner = <<>> /\ inserted = <<>>
    /\ dbClosed = FALSE
    /\ now = Time(2, 0)
    /\ prior = [c \in CallIds |-> {}]
    /\ queried = NoQuery

NextAgent ==
    \/ \E ts \in { agent.clock, agent.clock + 1 } : KernelLogs(ts)
    \/ KernelDrops
    \/ Collect
    \/ \E reply \in SendReplies, written \in {"written", "failed", "truncated"} :
          SendReturns(reply, written)

SpecAgent == InitAgent /\ [][NextAgent]_vars

----------------------------------------------------------------------------
\* The agent of a fresh host when nothing goes wrong: the collector answers
\* every Delta with 200, every state file write succeeds and the kernel log
\* keeps all its lines.

Reply200 == [err |-> FALSE, StatusCode |-> 200]

InitFresh ==
    /\ agent = AgentIdle
    /\ endpoints = <<>>
    /\ llmNil = TRUE
    /\ calls = [c \in CallIds |-> IdleCall]
    /\ db = <<>> /\ dbSeq = 0 /\ owner = <<>> /\ inserted = <<>>
    /\ dbClosed = FALSE
    /\ now = Time(2, 0)
    /\ prior = [c \in CallIds |-> {}]
    /\ queried = NoQuery

NextFresh ==
    \/ \E ts \in { agent.clock, agent.clock + 1 } : KernelLogs(ts)
    \/ Collect
    \/ SendReturns(Reply200, "written")

SpecFresh == InitFresh /\ [][NextFresh]_vars

----------------------------------------------------------------------------
\* The agent of host h1 against the collector.  The Delta of a send arrives
\* at ServeHTTP as a request with the agent's credential, which may not be
\* the collector's, and a body that may be beyond the collector's limit;
\* a.client.Do returns the collector's response once the handler has
\* written it, or fails (collector unreachable, or the client's 30 s timeout
\* while the handler goes on).  The collector has one endpoint; the kernel
\* logs every line in a second of its own.

\* Agent.send up to a.client.Do: the request for the lines of the Delta
AgentRequest(lines, key, size) ==
    [Authorization |-> <<"Bearer ", key>>, ContentLength |-> size,
     bodyLen |-> size, bodyErr |-> FALSE,
     doc |-> DmesgDelta("h1", [k \in 1..Len(lines) |-> LineText(lines[k].n)])]

\* the request of the send under way reaches ServeHTTP as invocation c, the
\* next one the collector has not served yet
Deliver(c, key, size) ==
    /\ agent.pc = "sending" /\ agent.call = 0
    /\ calls[c].pc = "idle"
    /\ \A d \in DOMAIN calls : d < c => calls[d].pc # "idle"
    /\ ~dbClosed
    /\ calls' = [calls EXCEPT
                    ![c] = ServeHTTPBegin(AgentRequest(agent.lines, key, size),
                                          endpoints, llmNil)]
    /\ prior' = [prior EXCEPT ![c] = { d \in DOMAIN calls : calls[d].pc = "done" }]
    /\ agent' = [agent EXCEPT !.call = c]
    /\ UNCHANGED <<endpoints, llmNil, db, dbSeq, dbClosed, now, owner, inserted,
                   queried>>

\* a.client.Do returns the response the handler wrote
CollectorAnswers(written) ==
    /\ agent.call # 0
    /\ calls[agent.call].pc = "done"
    /\ SendReturns([err |-> FALSE, StatusCode |-> calls[agent.call].resp.code],
                   written)

\* a.client.Do fails
SendFails ==
    SendReturns([err |-> TRUE, StatusCode |-> 0], "written")

NextEndToEnd ==
    \/ KernelLogs(agent.clock + 1)
    \/ Collect
    \/ \E c \in ManyCallIds, key \in {apiKey, "wrong"},
          size \in {maxPayloadBytes, maxPayloadBytes + 1} : Deliver(c, key, size)
    \/ \E c \in ManyCallIds, reply \in ManyReplies : Attempt(c, reply, 0)
    \/ \E c \in ManyCallIds, execFails \in BOOLEAN : Store(c, execFails)
    \/ \E written \in {"written", "failed", "truncated"} : CollectorAnswers(written)
    \/ SendFails

InitEndToEnd ==
    /\ agent = AgentIdle
    /\ endpoints = <<Endpoint(1)>>
    /\ llmNil = FALSE
    /\ calls = [c \in ManyCallIds |-> IdleCall]
    /\ db = <<>> /\ dbSeq = 0 /\ owner = <<>> /\ inserted = <<>>
    /\ dbClosed = FALSE
    /\ now = Time(2, 0)
    /\ prior = [c \in ManyCallIds |-> {}]
    /\ queried = NoQuery

SpecEndToEnd == InitEndToEnd /\ [][NextEndToEnd]_vars

----------------------------------------------------------------------------
\* FilterNewLines and CapLines on their own: any dmesg output of up to
\* MaxLogLines lines, stamped in any order or not at all, against any marker.

\* the seconds a line of the output can be stamped with
LineStamps == {NoTimestamp} \cup (1..MaxLogLines)

\* the outputs of dmesg -T: line k is the k-th one logged
DmesgOutputs ==
    UNION { { [k \in 1..len |-> [n |-> k, ts |-> stamps[k]]] :
                stamps \in [1..len -> LineStamps] } : len \in 0..MaxLogLines }

\* the state files FilterNewLines is tried against: none, a corrupt one, and
\* markers of whole and of fractional seconds
StateFiles ==
    {NoStateFile, CorruptFile}
        \cup { WriteLastTimestamp(AgentTime(sec, nsec, 0)) :
                   sec \in 1..2, nsec \in 0..1 }

\* FilterNewLines(lines, lastSeen) as collect calls it
FilterLines ==
    /\ agent.pc = "idle"
    /\ LET lastSeen == ReadLastTimestamp(agent.stateFile).ts
           new      == FilterNewLines(agent.log, lastSeen)
       IN  agent' = [agent EXCEPT !.pc = "filtered",
                                  !.lastSeen = lastSeen,
                                  !.lines = new.filtered,
                                  !.latestTs = new.latest]
    /\ UNCHANGED <<endpoints, llmNil, calls, db, dbSeq, dbClosed, now, owner,
                   prior, queried, inserted>>

\* CapLines(lines) on the whole output
CapTheLines ==
    /\ agent.pc = "idle"
    /\ agent' = [agent EXCEPT !.pc = "capped",
                              !.lines = CapLines(agent.log).lines,
                              !.truncated = CapLines(agent.log).truncated]
    /\ UNCHANGED <<endpoints, llmNil, calls, db, dbSeq, dbClosed, now, owner,
                   prior, queried, inserted>>

InitLines ==
    /\ agent \in { [AgentIdle EXCEPT !.stateFile = f, !.before = f, !.log = out,
                                      !.logged = Len(out)] :
                      f \in StateFiles, out \in DmesgOutputs }
    /\ endpoints = <<>>
    /\ llmNil = TRUE
    /\ calls = [c \in CallIds |-> IdleCall]
    /\ db = <<>> /\ dbSeq = 0 /\ owner = <<>> /\ inserted = <<>>
    /\ dbClosed = FALSE
    /\ now = Time(2, 0)
    /\ prior = [c \in CallIds |-> {}]
    /\ queried = NoQuery

NextLines ==
    \/ FilterLines
    \/ CapTheLines
    \/ Collect

SpecLines == InitLines /\ [][NextLines]_vars

----------------------------------------------------------------------------
\* The state file on its own: any timestamp is written, and any file is read.

MaxSeconds == 2     \* seconds after the zero time of the timestamps written

\* the timestamps written: whole and fractional seconds in three zones
StateTimes ==
    { AgentTime(sec, nsec, offset) :
        sec \in 0..MaxSeconds, nsec \in 0..1, offset \in -1..1 }

\* WriteLastTimestamp(path, ts): a failed write leaves the file as it was or
\* empty
WriteState(ts, written) ==
    /\ agent.pc = "idle"
    /\ agent' = [agent EXCEPT
                    !.pc = IF written = "written" THEN "wrote" ELSE "write failed",
                    !.latestTs = ts,
                    !.stateFile = IF written = "failed" THEN @
                                  ELSE IF written = "truncated" THEN EmptyFile
                                  ELSE WriteLastTimestamp(ts)]
    /\ UNCHANGED <<endpoints, llmNil, calls, db, dbSeq, dbClosed, now, owner,
                   prior, queried, inserted>>

\* ReadLastTimestamp(path), of the file as it was found or as it was written
ReadState ==
    /\ agent.pc \in {"idle", "wrote"}
    /\ agent' = [agent EXCEPT
                    !.pc = IF agent.pc = "wrote" THEN "read back" ELSE "read",
                    !.lastSeen = ReadLastTimestamp(agent.stateFile).ts,
                    !.readErr = ReadLastTimestamp(agent.stateFile).err]
    /\ UNCHANGED <<endpoints, llmNil, calls, db, dbSeq, dbClosed, now, owner,
                   prior, queried, inserted>>

InitState ==
    /\ agent \in { [AgentIdle EXCEPT !.stateFile = f, !.before = f] :
                      f \in {NoStateFile, CorruptFile, EmptyFile, UnreadableFile}
                              \cup { WriteLastTimestamp(ts) : ts \in StateTimes } }
    /\ endpoints = <<>>
    /\ llmNil = TRUE
    /\ calls = [c \in CallIds |-> IdleCall]
    /\ db = <<>> /\ dbSeq = 0 /\ owner = <<>> /\ inserted = <<>>
    /\ dbClosed = FALSE
    /\ now = Time(2, 0)
    /\ prior = [c \in CallIds |-> {}]
    /\ queried = NoQuery

NextState ==
    \/ \E ts \in StateTimes, written \in {"written", "failed", "truncated"} :
          WriteState(ts, written)
    \/ ReadState

SpecState == InitState /\ [][NextState]_vars

----------------------------------------------------------------------------
\* Vocabulary of the properties

\* the request carries exactly the configured bearer credential
Authenticated(req) == req.Authorization = <<"Bearer ", apiKey>>

\* neither the declared nor the actual body length exceeds the maximum
InSize(req) ==
    req.ContentLength <= maxPayloadBytes /\ req.bodyLen <= maxPayloadBytes

\* the body is read completely and decodes into a Delta
Decodes(req) == ~req.bodyErr /\ req.doc.valid

Accepted(req) == Authenticated(req) /\ InSize(req) /\ Decodes(req)

\* the rows invocation c inserted
RowsOf(c) == { k \in 1..Len(db) : owner[k] = c }

Started(c)  == calls[c].pc # "idle"
Finished(c) == calls[c].pc = "done"
\* Analyze has returned to ServeHTTP
Analyzed(c) == calls[c].pc \in {"store", "done"} /\ ~llmNil

RECURSIVE SumLatency(_)
SumLatency(as) == IF as = <<>> THEN 0 ELSE as[1].latency + SumLatency(Tail(as))

\* how Analyze treated an attempt
AttemptOK(a)          == a.err.isNil
AttemptUnavailable(a) == ~a.err.isNil /\ isUnavailableErr(a.err)
AttemptTerminal(a)    == ~a.err.isNil /\ ~isUnavailableErr(a.err)

\* the provider was down: connection failure, deadline exceeded, 502/503/504
ProviderDown(a) ==
    a.reply.transport # "" \/ a.reply.code \in {502, 503, 504}

\* how a call of Analyze ended
AnalysisSucceeded(c) ==
    /\ Analyzed(c) /\ calls[c].attempts # <<>>
    /\ AttemptOK(calls[c].attempts[Len(calls[c].attempts)])
AnalysisAllUnavailable(c) ==
    /\ Analyzed(c) /\ Len(endpoints) >= 1
    /\ Len(calls[c].attempts) = Len(endpoints)
    /\ \A j \in 1..Len(calls[c].attempts) : AttemptUnavailable(calls[c].attempts[j])
AnalysisTerminal(c) ==
    /\ Analyzed(c) /\ calls[c].attempts # <<>>
    /\ AttemptTerminal(calls[c].attempts[Len(calls[c].attempts)])
AnalysisNoEndpoints(c) ==
    Analyzed(c) /\ Len(endpoints) = 0

----------------------------------------------------------------------------
\* C1 (as stated): every request that passes authentication, size
\* enforcement and decoding and has at least one line creates exactly one
\* new StoredRecord whose raw text is the input lines joined in order,
\* whatever the analysis outcome.
C1_Original ==
    \A c \in DOMAIN calls :
        (Finished(c) /\ Accepted(calls[c].req) /\ Len(calls[c].req.doc.Lines) >= 1)
        => /\ Cardinality(RowsOf(c)) = 1
           /\ \A k \in RowsOf(c) :
                 db[k].raw_dmesg = Join(calls[c].req.doc.Lines, "\n")

\* C1 (amended): such a request creates exactly one new StoredRecord whose
\* raw text is the input lines joined in order, whatever the analysis
\* outcome, unless the store insert fails; then no record is created.
C1_OneRecordPerAcceptedDelta ==
    \A c \in DOMAIN calls :
        (Finished(c) /\ Accepted(calls[c].req) /\ Len(calls[c].req.doc.Lines) >= 1)
        => IF calls[c].dbErr
           THEN RowsOf(c) = {}
           ELSE /\ Cardinality(RowsOf(c)) = 1
                /\ \A k \in RowsOf(c) :
                      db[k].raw_dmesg = Join(calls[c].req.doc.Lines, "\n")

\* an accepted two-line Delta whose analysis failed terminally has its record
C1_Witness ==
    \E c \in DOMAIN calls :
        /\ Finished(c) /\ Accepted(calls[c].req)
        /\ Len(calls[c].req.doc.Lines) = 2
        /\ AnalysisTerminal(c)
        /\ Cardinality(RowsOf(c)) = 1
        /\ Len(db) >= 2

\* an accepted Delta without lines
C2_EmptyDelta(req) == Accepted(req) /\ Len(req.doc.Lines) = 0

\* C2: an authenticated, in-size, decodable Delta with zero lines is answered
\* 200 with status "skipped", no outbound attempt is made and the Result
\* Store is left as it was.
C2_EmptyDeltaSkipped ==
    /\ [](\A c \in DOMAIN calls :
            (Started(c) /\ C2_EmptyDelta(calls[c].req))
            => /\ Finished(c)
               /\ calls[c].resp.code = 200
               /\ calls[c].resp.status = "skipped"
               /\ calls[c].attempts = <<>>
               /\ ~calls[c].dbErr
               /\ RowsOf(c) = {})
    /\ [][\A c \in DOMAIN calls :
            (~Started(c) /\ C2_EmptyDelta(calls'[c].req))
            => (db' = db /\ dbSeq' = dbSeq)]_vars

\* an empty Delta sent to a collector that has endpoints and an earlier row
C2_Witness ==
    \E c \in DOMAIN calls :
        /\ Finished(c) /\ C2_EmptyDelta(calls[c].req)
        /\ calls[c].resp.status = "skipped"
        /\ Len(endpoints) >= 1
        /\ Len(db) = 1

\* C3: when the first K attempts find their provider down (connection
\* failure, deadline exceeded, HTTP 502/503/504) the chain advances to
\* endpoint K+1, and when that attempt succeeds Analyze returns its result
\* with no error, attempts nothing further, and returns the sum of the K+1
\* latencies.
C3_FallbackRecovers ==
    \A c \in DOMAIN calls :
        LET as == calls[c].attempts IN
        /\ (/\ calls[c].pc \in {"analyze", "store", "done"}
            /\ as # <<>>
            /\ Len(as) < Len(endpoints)
            /\ \A j \in 1..Len(as) : ProviderDown(as[j]))
           => (calls[c].pc = "analyze" /\ calls[c].i = Len(as) + 1)
        /\ \A k \in 1..Len(as) :
              (/\ AttemptOK(as[k])
               /\ \A j \in 1..(k - 1) : ProviderDown(as[j]) \/ AttemptUnavailable(as[j]))
              => /\ Len(as) = k
                 /\ Analyzed(c)
                 /\ calls[c].llmErr.isNil
                 /\ calls[c].result = as[k].reply.result
                 /\ calls[c].latency = SumLatency(as)
                 /\ \A j \in 1..k : as[j].ep = j

\* endpoint 1 timed out, endpoint 2 answered; both attempts took 1 ms
C3_Witness ==
    \E c \in DOMAIN calls :
        /\ Analyzed(c)
        /\ Len(endpoints) = 2 /\ Len(calls[c].attempts) = 2
        /\ calls[c].attempts[1].reply.transport = "context deadline exceeded"
        /\ AttemptOK(calls[c].attempts[2])
        /\ calls[c].attempts[1].latency = 1 /\ calls[c].attempts[2].latency = 1
        /\ calls[c].latency = 2
        /\ calls[c].result.Status = "warning"

\* C4: when all N >= 1 endpoints were attempted and found unavailable,
\* Analyze returns the all-unavailable error and IsUnavailable holds of it;
\* of every other error Analyze returns (a terminal failure, the empty
\* endpoint list) IsUnavailable is false.
C4_AllUnavailableIdentifiable ==
    \A c \in DOMAIN calls :
        LET as == calls[c].attempts IN
        /\ (/\ Analyzed(c) /\ Len(endpoints) >= 1 /\ Len(as) = Len(endpoints)
            /\ \A j \in 1..Len(as) : ProviderDown(as[j]) \/ AttemptUnavailable(as[j]))
           => /\ ~calls[c].llmErr.isNil
              /\ IsUnavailable(calls[c].llmErr)
              /\ calls[c].result.isNil
        /\ (Analyzed(c) /\ ~calls[c].llmErr.isNil)
           => /\ AnalysisAllUnavailable(c) \/ AnalysisTerminal(c) \/ AnalysisNoEndpoints(c)
              /\ (AnalysisTerminal(c) \/ AnalysisNoEndpoints(c))
                    => ~IsUnavailable(calls[c].llmErr)

\* both endpoints of a two-endpoint chain were down
C4_Witness ==
    \E c \in DOMAIN calls :
        /\ Analyzed(c)
        /\ Len(endpoints) = 2 /\ Len(calls[c].attempts) = 2
        /\ calls[c].attempts[1].reply.code = 503
        /\ calls[c].attempts[2].reply.transport = "connection refused"
        /\ IsUnavailable(calls[c].llmErr)

\* C5: when Analyze classifies the attempt on endpoint i as terminal (an
\* error that is not an availability error), it returns that attempt's error
\* at once and attempts no endpoint after i.
C5_TerminalAborts ==
    \A c \in DOMAIN calls :
        LET as == calls[c].attempts IN
        \A k \in 1..Len(as) :
            AttemptTerminal(as[k])
            => /\ Len(as) = k
               /\ Analyzed(c)
               /\ calls[c].llmErr = as[k].err
               /\ calls[c].result.isNil

\* endpoint 1 of two answered 400; endpoint 2 was never contacted
C5_Witness ==
    \E c \in DOMAIN calls :
        /\ Finished(c)
        /\ Len(endpoints) = 2
        /\ Len(calls[c].attempts) = 1
        /\ calls[c].attempts[1].reply.code = 400
        /\ AttemptTerminal(calls[c].attempts[1])

\* the two ways of failing authentication named by the property
NoAuthHeader(req) == req.Authorization = <<>>
WrongBearer(req) ==
    HasPrefix(req.Authorization, "Bearer ") /\ req.Authorization # <<"Bearer ", apiKey>>

\* C6: a request without Authorization header, or with a bearer value other
\* than the shared secret, is answered 401, never reaches analysis and
\* produces no StoredRecord.
C6_Unauthorized ==
    \A c \in DOMAIN calls :
        (Started(c) /\ (NoAuthHeader(calls[c].req) \/ WrongBearer(calls[c].req)))
        => /\ Finished(c)
           /\ calls[c].resp.code = 401
           /\ calls[c].attempts = <<>>
           /\ ~calls[c].dbErr
           /\ RowsOf(c) = {}

\* a wrong bearer value on an otherwise acceptable two-line Delta
C6_Witness ==
    \E c \in DOMAIN calls :
        /\ Finished(c)
        /\ WrongBearer(calls[c].req)
        /\ InSize(calls[c].req) /\ Decodes(calls[c].req)
        /\ Len(calls[c].req.doc.Lines) = 2
        /\ Len(endpoints) >= 1
        /\ calls[c].resp.code = 401

\* C7: an authenticated request whose body is longer than the maximum is
\* answered 413 and is neither analysed nor stored, also when the body
\* would decode into a valid Delta.
C7_PayloadTooLarge ==
    \A c \in DOMAIN calls :
        (/\ Started(c) /\ Authenticated(calls[c].req)
         /\ calls[c].req.bodyLen > maxPayloadBytes)
        => /\ Finished(c)
           /\ calls[c].resp.code = 413
           /\ calls[c].attempts = <<>>
           /\ ~calls[c].dbErr
           /\ RowsOf(c) = {}

\* an oversized valid Delta sent without a declared length
C7_Witness ==
    \E c \in DOMAIN calls :
        /\ Finished(c) /\ Authenticated(calls[c].req)
        /\ calls[c].req.bodyLen = maxPayloadBytes + 1
        /\ calls[c].req.ContentLength = -1
        /\ calls[c].req.doc.valid /\ Len(calls[c].req.doc.Lines) >= 1
        /\ Len(endpoints) >= 1
        /\ calls[c].resp.code = 413

C10_Undecodable(req) == Authenticated(req) /\ InSize(req) /\ ~Decodes(req)

\* C10: a body that does not decode into a Delta is answered 400 without
\* invoking the coordinator or touching the store, and every 401, 413 and
\* 400 response is written before any outbound attempt or store insert.
C10_ClientErrorsHaveNoEffect ==
    /\ [](\A c \in DOMAIN calls :
            /\ (Started(c) /\ C10_Undecodable(calls[c].req))
               => (Finished(c) /\ calls[c].resp.code = 400)
            /\ (Started(c) /\ calls[c].resp.code \in {400, 401, 413})
               => /\ calls[c].attempts = <<>>
                  /\ ~calls[c].dbErr
                  /\ RowsOf(c) = {})
    /\ [][\A c \in DOMAIN calls :
            (~Started(c) /\ calls'[c].resp.code \in {400, 401, 413})
            => (db' = db /\ dbSeq' = dbSeq)]_vars

\* an authenticated body that is not JSON, sent to a collector with endpoints
C10_Witness ==
    \E c \in DOMAIN calls :
        /\ Finished(c) /\ C10_Undecodable(calls[c].req)
        /\ ~calls[c].req.bodyErr
        /\ calls[c].req.bodyLen = maxPayloadBytes
        /\ Len(endpoints) >= 1
        /\ calls[c].resp.code = 400

\* C11: on every return path of Analyze (success, terminal abort, all
\* unavailable, no endpoints) the returned total latency is the sum of the
\* latencies of the attempts made in that call, the running total equals that
\* sum while the chain is walked, and the record stored for the request
\* carries the same total.
C11_LatencyIsSumOfAttempts ==
    \A c \in DOMAIN calls :
        LET as == calls[c].attempts IN
        /\ calls[c].pc = "analyze" => calls[c].totalLatency = SumLatency(as)
        /\ calls[c].pc \in {"store", "done"} => calls[c].latency = SumLatency(as)
        /\ \A k \in RowsOf(c) : db[k].api_latency_ms = SumLatency(as)

\* a slow unavailable attempt followed by a slow terminal one: 2 ms stored
C11_Witness ==
    \E c \in DOMAIN calls :
        /\ Finished(c) /\ AnalysisTerminal(c)
        /\ Len(calls[c].attempts) = 2
        /\ calls[c].attempts[1].latency = MaxLatency
        /\ calls[c].attempts[2].latency = MaxLatency
        /\ \E k \in RowsOf(c) : db[k].api_latency_ms = 2 * MaxLatency

\* the status vocabulary of a StoredRecord and of a successful analysis
RecordStatuses   == {"ok", "warning", "critical", "llm_unavailable", "error"}
AnalysisStatuses == {"ok", "warning", "critical"}

\* C12: every record written by the ingestion endpoint has a status among
\* ok, warning, critical, llm_unavailable and error, and a record written
\* after a successful analysis has one among ok, warning and critical,
\* whatever document the provider returned in a decodable 200 response.
C12_StatusInVocabulary ==
    \A c \in DOMAIN calls :
        \A k \in RowsOf(c) :
            /\ db[k].status \in RecordStatuses
            /\ AnalysisSucceeded(c) => db[k].status \in AnalysisStatuses

\* a reply the classification policy calls terminal: a status outside 2xx
\* other than 502, 503, 504, a 200 without choices, or a 200 whose body or
\* content does not decode
TerminalReply(reply) ==
    /\ reply.transport = ""
    /\ \/ reply.code \notin (200..299) \cup {502, 503, 504}
       \/ reply.code = 200 /\ reply.envelope \in {"badjson", "nochoices"}
       \/ reply.code = 200 /\ reply.envelope = "choices" /\ reply.content = "notjson"

\* C13: an attempt answered with a non-2xx status other than 502, 503, 504,
\* with zero choices, or with content that does not decode is classified
\* terminal whatever the response body says: it is the last attempt of the
\* call and Analyze returns its error.
C13_TerminalWhateverTheBody ==
    \A c \in DOMAIN calls :
        LET as == calls[c].attempts IN
        \A k \in 1..Len(as) :
            TerminalReply(as[k].reply)
            => /\ AttemptTerminal(as[k])
               /\ Len(as) = k
               /\ Analyzed(c)
               /\ calls[c].llmErr = as[k].err

\* the reply carries a chat completion whose content decodes into an
\* AnalysisResult
DecodableReply(reply) ==
    reply.transport = "" /\ reply.envelope = "choices" /\ reply.content = "json"

\* C14 (as stated): an attempt answered with any 2xx status and decodable
\* content is a success, and Analyze returns that result.
C14_Original ==
    \A c \in DOMAIN calls :
        LET as == calls[c].attempts IN
        \A k \in 1..Len(as) :
            (DecodableReply(as[k].reply) /\ as[k].reply.code \in 200..299)
            => /\ AttemptOK(as[k])
               /\ Analyzed(c) /\ Len(as) = k
               /\ calls[c].llmErr.isNil
               /\ calls[c].result = as[k].reply.result

\* C14 (amended): an attempt answered with status 200 and decodable content
\* is a success: it is the last attempt and Analyze returns that result with
\* no error.
C14_OKIsSuccess ==
    \A c \in DOMAIN calls :
        LET as == calls[c].attempts IN
        \A k \in 1..Len(as) :
            (DecodableReply(as[k].reply) /\ as[k].reply.code = 200)
            => /\ AttemptOK(as[k])
               /\ Analyzed(c) /\ Len(as) = k
               /\ calls[c].llmErr.isNil
               /\ calls[c].result = as[k].reply.result

\* the only endpoint answered 200 with a warning and one issue
C14_Witness ==
    \E c \in DOMAIN calls :
        /\ Analyzed(c)
        /\ Len(endpoints) = 1 /\ Len(calls[c].attempts) = 1
        /\ calls[c].attempts[1].reply.code = 200
        /\ DecodableReply(calls[c].attempts[1].reply)
        /\ calls[c].result = AnalysisResult("warning", OneIssue)

\* an accepted non-empty Delta handled by a client without endpoints
C15_NoEndpointsCase(c) ==
    /\ Started(c) /\ ~llmNil /\ Len(endpoints) = 0
    /\ Accepted(calls[c].req) /\ Len(calls[c].req.doc.Lines) >= 1

\* C15 (as stated): with an empty endpoint list Analyze fails at once with a
\* configuration error, makes no outbound attempt and reports latency 0; the
\* error is not the all-unavailable kind, the record is stored with status
\* error and the caller is answered 200.
C15_Original ==
    \A c \in DOMAIN calls :
        C15_NoEndpointsCase(c)
        => /\ Analyzed(c)
           /\ calls[c].attempts = <<>>
           /\ calls[c].latency = 0
           /\ calls[c].result.isNil
           /\ ~calls[c].llmErr.isNil
           /\ ~IsUnavailable(calls[c].llmErr)
           /\ Finished(c)
              => /\ calls[c].resp.code = 200
                 /\ calls[c].resp.status = "error"
                 /\ Cardinality(RowsOf(c)) = 1
                 /\ \A k \in RowsOf(c) :
                       db[k].status = "error" /\ db[k].api_latency_ms = 0

\* C15 (amended): as stated, except that when the store insert fails the
\* caller is answered 500 and no record is created.
C15_NoEndpointsIsError ==
    \A c \in DOMAIN calls :
        C15_NoEndpointsCase(c)
        => /\ Analyzed(c)
           /\ calls[c].attempts = <<>>
           /\ calls[c].latency = 0
           /\ calls[c].result.isNil
           /\ ~calls[c].llmErr.isNil
           /\ ~IsUnavailable(calls[c].llmErr)
           /\ (Finished(c) /\ ~calls[c].dbErr)
              => /\ calls[c].resp.code = 200
                 /\ calls[c].resp.status = "error"
                 /\ Cardinality(RowsOf(c)) = 1
                 /\ \A k \in RowsOf(c) :
                       db[k].status = "error" /\ db[k].api_latency_ms = 0
           /\ (Finished(c) /\ calls[c].dbErr)
              => (calls[c].resp.code = 500 /\ RowsOf(c) = {})

\* a two-line Delta stored as error by a collector without endpoints
C15_Witness ==
    \E c \in DOMAIN calls :
        /\ C15_NoEndpointsCase(c) /\ Finished(c)
        /\ Len(calls[c].req.doc.Lines) = 2
        /\ calls[c].resp.code = 200
        /\ \E k \in RowsOf(c) : db[k].status = "error"

\* C16: the client keeps no history.  No step changes the endpoint list;
\* an invocation that begins, whatever other invocations did before or are
\* doing meanwhile, starts at the first endpoint; and the endpoints an
\* invocation attempts are 1..k, each tried because all attempts before it
\* in the same invocation were unavailable, ending at the first attempt
\* that is not unavailable or at the end of the list.
C16_NoHistory ==
    /\ [](\A c \in DOMAIN calls :
            LET as == calls[c].attempts IN
            /\ \A j \in 1..Len(as) : as[j].ep = j
            /\ \A j \in 1..(Len(as) - 1) : AttemptUnavailable(as[j])
            /\ calls[c].pc = "analyze"
               => /\ calls[c].i = Len(as) + 1
                  /\ \A j \in 1..Len(as) : AttemptUnavailable(as[j])
            /\ (Analyzed(c) /\ Len(endpoints) >= 1)
               => /\ as # <<>>
                  /\ Len(as) < Len(endpoints) => ~AttemptUnavailable(as[Len(as)]))
    /\ [][/\ endpoints' = endpoints
          /\ \A c \in DOMAIN calls :
                (~Started(c) /\ calls'[c].pc = "analyze")
                => (calls'[c].i = 1 /\ calls'[c].attempts = <<>>)]_vars

\* an invocation that began after another one had finished by falling back
\* to endpoint 2 made its own first attempt on endpoint 1
C16_Witness ==
    \E c, d \in DOMAIN calls :
        /\ d \in prior[c]
        /\ Len(calls[d].attempts) = 2
        /\ AttemptUnavailable(calls[d].attempts[1])
        /\ AttemptOK(calls[d].attempts[2])
        /\ Len(calls[c].attempts) >= 1
        /\ calls[c].attempts[1].ep = 1
        /\ AttemptOK(calls[c].attempts[1])

\* the caller of invocation c went away during or after the analysis
Cancelled(c) == calls[c].cancelledAt >= 0

\* C17: when the caller's cancellation fires during or after the analysis
\* and before the store write, the handler still reaches the insert, the
\* insert can be carried out, and unless the store itself fails the record
\* with the raw input lines is created.
C17_CancelledStillStored ==
    \A c \in DOMAIN calls :
        Cancelled(c)
        => /\ calls[c].pc \in {"analyze", "store", "done"}
           /\ calls[c].pc = "store" => ENABLED Store(c, FALSE)
           /\ Finished(c)
              => IF calls[c].dbErr
                 THEN calls[c].resp.code = 500 /\ RowsOf(c) = {}
                 ELSE /\ Cardinality(RowsOf(c)) = 1
                      /\ \A k \in RowsOf(c) :
                            db[k].raw_dmesg = Join(calls[c].req.doc.Lines, "\n")

\* the caller went away during the attempt on endpoint 1 of 2; both attempts
\* failed on the cancellation and the two lines were stored
C17_Witness ==
    \E c \in DOMAIN calls :
        /\ Finished(c) /\ calls[c].cancelledAt = 0
        /\ Len(calls[c].attempts) = 2
        /\ calls[c].attempts[2].reply.transport = "context canceled"
        /\ Len(calls[c].req.doc.Lines) = 2
        /\ \E k \in RowsOf(c) :
              /\ db[k].raw_dmesg = Join(calls[c].req.doc.Lines, "\n")
              /\ db[k].status = "llm_unavailable"

\* C18 (as stated), the part a state shows: every finished invocation for
\* an accepted non-empty Delta has inserted exactly one record, and a record
\* exists only once Analyze has returned and the insert has run.
C18_Original ==
    \A c \in DOMAIN calls :
        /\ RowsOf(c) # {} => Finished(c)
        /\ (Finished(c) /\ Accepted(calls[c].req) /\ Len(calls[c].req.doc.Lines) >= 1)
           => Cardinality(RowsOf(c)) = 1

\* C18 (amended): records are append-only.  An invocation for an accepted
\* non-empty Delta inserts one record, or none when its insert fails; the
\* insert happens only after Analyze has returned, never before or during an
\* attempt; and every step leaves the existing records, their identifiers
\* and their order as they were, adding at most one record at the end.
C18_AppendOnly ==
    /\ [](\A c \in DOMAIN calls :
            /\ RowsOf(c) # {} => Finished(c)
            /\ Cardinality(RowsOf(c)) <= 1
            /\ (Finished(c) /\ Accepted(calls[c].req)
                            /\ Len(calls[c].req.doc.Lines) >= 1)
               => IF calls[c].dbErr THEN RowsOf(c) = {}
                  ELSE Cardinality(RowsOf(c)) = 1)
    /\ [][/\ Len(db') \in {Len(db), Len(db) + 1}
          /\ \A k \in 1..Len(db) : db'[k] = db[k] /\ owner'[k] = owner[k]
          /\ Len(db') = Len(db) + 1
             => \E c \in DOMAIN calls :
                   /\ calls[c].pc = "store" /\ calls'[c].pc = "done"
                   /\ owner'[Len(db')] = c
                   /\ db'[Len(db')].raw_dmesg = Join(calls[c].req.doc.Lines, "\n")]_vars

\* two invocations for the same host have each inserted their record
C18_Witness ==
    /\ Len(db) = 2
    /\ db[1].hostname = db[2].hostname
    /\ owner[1] # owner[2]
    /\ \A c \in DOMAIN calls : Finished(c) /\ Cardinality(RowsOf(c)) = 1

\* C19: every record's identifier is assigned by the store, is unique, and
\* is greater than the identifier of every record inserted before it, also
\* when the inserts come from invocations that run concurrently.
C19_IdsIncrease ==
    /\ [](/\ \A j, k \in 1..Len(db) : j < k => db[j].id < db[k].id
          /\ \A k \in 1..Len(db) : db[k].id >= 1 /\ db[k].id <= dbSeq)
    /\ [][Len(db') = Len(db) + 1
          => /\ db'[Len(db')].id = dbSeq'
             /\ dbSeq' > dbSeq
             /\ \A k \in 1..Len(db) : db'[Len(db')].id > db[k].id]_vars

\* two invocations that overlapped inserted in the order 2, 1
C19_Witness ==
    /\ Len(db) = 2
    /\ owner = <<2, 1>>
    /\ prior[1] = {} /\ prior[2] = {}
    /\ db[1].id = 1 /\ db[2].id = 2

RECURSIVE NewestFirst(_)
\* the row numbers in S from the last inserted to the first
NewestFirst(S) ==
    IF S = {} THEN <<>>
    ELSE LET k == CHOOSE m \in S : \A n \in S : n <= m
         IN  <<k>> \o NewestFirst(S \ {k})

\* the limit most recently created records among the rows numbered by S,
\* most recent first
MostRecent(S, limit) ==
    LET all == NewestFirst(S)
    IN  [k \in 1..(IF limit < Len(all) THEN limit ELSE Len(all)) |-> db[all[k]]]

\* C20: QueryByHostname(h, N) returns only records of source h, min(N,
\* number of such records) of them, and they are the N most recently
\* created ones, most recent first, also when records were created within
\* the same second or under different zone offsets.
C20_QueryByHostnameMostRecent ==
    queried.op = "QueryByHostname"
    => LET S == { k \in 1..queried.seen : db[k].hostname = queried.hostname } IN
       /\ \A k \in 1..Len(queried.rows) : queried.rows[k].hostname = queried.hostname
       /\ Len(queried.rows) =
             IF queried.limit < Cardinality(S) THEN queried.limit ELSE Cardinality(S)
       /\ queried.rows = MostRecent(S, queried.limit)

\* C21: QueryNonOK(N) returns only records whose status is not ok, min(N,
\* number of such records) of them, and they are the N most recently
\* created ones, most recent first; no record with status ok is returned.
C21_QueryNonOKMostRecent ==
    queried.op = "QueryNonOK"
    => LET S == { k \in 1..queried.seen : db[k].status # "ok" } IN
       /\ \A k \in 1..Len(queried.results) : queried.results[k].Status # "ok"
       /\ Len(queried.results) =
             IF queried.limit < Cardinality(S) THEN queried.limit ELSE Cardinality(S)
       /\ queried.results = scanResults(MostRecent(S, queried.limit))

RECURSIVE SumCounts(_)
\* the sum of the values of a map of counts
SumCounts(counts) ==
    IF DOMAIN counts = {} THEN 0
    ELSE LET s == CHOOSE x \in DOMAIN counts : TRUE
         IN  counts[s] + SumCounts([x \in DOMAIN counts \ {s} |-> counts[x]])

\* C22: the map StatusCounts returns has an entry exactly for the statuses
\* that occur among the records stored when it ran, each entry is the number
\* of those records with that status, and the entries sum to the number of
\* records.
C22_StatusCountsExact ==
    queried.op = "StatusCounts"
    => LET S == 1..queried.seen IN
       /\ DOMAIN queried.counts = { inserted[k].Status : k \in S }
       /\ \A s \in DOMAIN queried.counts :
             queried.counts[s] = Cardinality({ k \in S : inserted[k].Status = s })
       /\ SumCounts(queried.counts) = queried.seen

\* ok, ok, ok, warning, critical were inserted and counted
C22_Witness ==
    /\ queried.op = "StatusCounts"
    /\ queried.seen = 5
    /\ [k \in 1..5 |-> inserted[k].Status] =
          <<"ok", "ok", "ok", "warning", "critical">>
    /\ queried.counts = [s \in CountStatuses |-> IF s = "ok" THEN 3 ELSE 1]

\* C23: every record QueryByHostname returns has the status, the number of
\* issues, the raw text and the latency of the StoredResult that was
\* inserted under its identifier (no issues when that list was empty or
\* nil), and with a limit of at least the number of the host's records
\* every inserted record of the host is returned.
C23_RoundTrip ==
    queried.op = "QueryByHostname"
    => LET S == { k \in 1..queried.seen : inserted[k].Hostname = queried.hostname } IN
       /\ \A j \in 1..Len(queried.results) :
             \E k \in S :
                /\ db[k].id = queried.results[j].ID
                /\ queried.results[j].Hostname = inserted[k].Hostname
                /\ queried.results[j].Status = inserted[k].Status
                /\ Len(queried.results[j].Issues.items) = Len(inserted[k].Issues.items)
                /\ queried.results[j].RawDmesg = inserted[k].RawDmesg
                /\ queried.results[j].APILatencyMs = inserted[k].APILatencyMs
       /\ queried.limit >= Cardinality(S)
          => \A k \in S : \E j \in 1..Len(queried.results) :
                              queried.results[j].ID = db[k].id

\* a record with one issue and a latency and a record with a nil issue
\* list came back from one query
C23_Witness ==
    /\ queried.op = "QueryByHostname"
    /\ Len(queried.results) = 2
    /\ \E j, k \in 1..2 :
          /\ inserted[queried.results[j].ID].Issues = OneIssue
          /\ queried.results[j].Issues = OneIssue
          /\ queried.results[j].APILatencyMs = MaxLatency
          /\ inserted[queried.results[k].ID].Issues = NilIssues
          /\ queried.results[k].Issues.items = <<>>

\* C24: a read that runs after an insert completed reflects it: the record
\* is counted by StatusCounts, and QueryByHostname and QueryNonOK return it
\* when it matches their filter and is among the limit most recently
\* created matching records.
C24_ReadsReflectInserts ==
    LET S == 1..queried.seen
        M == IF queried.op = "QueryByHostname"
             THEN { k \in S : inserted[k].Hostname = queried.hostname }
             ELSE { k \in S : inserted[k].Status # "ok" }
        within == NewestFirst(M)
    IN  /\ queried.op = "StatusCounts"
           => /\ \A k \in S : inserted[k].Status \in DOMAIN queried.counts
              /\ SumCounts(queried.counts) = queried.seen
        /\ queried.op \in {"QueryByHostname", "QueryNonOK"}
           => \A n \in 1..Len(within) :
                 n <= queried.limit
                 => \E j \in 1..Len(queried.results) :
                       queried.results[j].ID = db[within[n]].id

\* every invocation has finished an accepted non-empty Delta, and none
\* started after another had finished
ConcurrentCallsDone ==
    \A c \in DOMAIN calls :
        /\ Finished(c)
        /\ Accepted(calls[c].req)
        /\ Len(calls[c].req.doc.Lines) > 0
        /\ prior[c] = {}

\* row k holds the hostname, status, issues, raw text and latency that
\* invocation c stored
RowOfCall(k, c) == db[k] = InsertResult(StoredResult(calls[c]), db[k].id)

\* C25: when M invocations for accepted non-empty Deltas ran concurrently,
\* the table holds exactly M new records, their identifiers are distinct,
\* and every record carries the fields of one single invocation.
C25_ConcurrentInserts ==
    ConcurrentCallsDone
    => /\ Len(db) = Cardinality(DOMAIN calls)
       /\ \A j, k \in 1..Len(db) : j # k => db[j].id # db[k].id
       /\ \A k \in 1..Len(db) : \E c \in DOMAIN calls : RowOfCall(k, c)
       /\ \A c \in DOMAIN calls : \E k \in 1..Len(db) : RowOfCall(k, c)

\* the collector answered the last send with 200
Answered200 == ~agent.reply.err /\ agent.reply.StatusCode = 200

\* the last send failed: no answer, or an answer other than 200
SendFailed == agent.reply.err \/ agent.reply.StatusCode \notin {0, 200}

\* line l is among lines
Holds(lines, l) == \E j \in 1..Len(lines) : lines[j] = l

\* the state file is not written while a send is under way, it changes
\* only when the collector answered 200, and after a failed send it is as
\* it was
MarkerOnlyAfter200 ==
    /\ agent.pc = "sending" => agent.stateFile = agent.before
    /\ agent.stateFile # agent.before => Answered200
    /\ (agent.pc = "idle" /\ SendFailed) => agent.stateFile = agent.before

NewBehind(l) ==
    { m \in 1..Len(agent.log) :
        /\ agent.log[m].n > l.n
        /\ agent.log[m].ts > ReadLastTimestamp(agent.stateFile).ts.sec }

C26_ResponseReportsStored ==
    \A c \in DOMAIN calls :
        (Finished(c) /\ calls[c].resp.code = 200 /\ Len(calls[c].req.doc.Lines) > 0)
        => /\ RowsOf(c) # {}
           /\ \A k \in RowsOf(c) :
                 /\ calls[c].resp.status = db[k].status
                 /\ calls[c].resp.latency_ms = db[k].api_latency_ms

\* a request whose analysis found every endpoint down after a slow attempt
\* was answered 200 with llm_unavailable and the stored latency
C26_Witness ==
    \E c \in DOMAIN calls :
        /\ Finished(c) /\ calls[c].resp.code = 200
        /\ AnalysisAllUnavailable(c)
        /\ calls[c].resp.status = "llm_unavailable"
        /\ calls[c].resp.latency_ms >= MaxLatency
        /\ \E k \in RowsOf(c) : db[k].api_latency_ms = calls[c].resp.latency_ms

C29_SizeByActualBody ==
    \A c \in DOMAIN calls :
        LET req == calls[c].req IN
        (Started(c) /\ Authenticated(req))
        => /\ req.bodyLen > maxPayloadBytes
              => /\ Finished(c)
                 /\ calls[c].resp = Response(413, "", 0, "Request Entity Too Large")
                 /\ calls[c].attempts = <<>>
                 /\ RowsOf(c) = {}
                 /\ ReadAll(req, maxPayloadBytes + 1).n <= maxPayloadBytes + 1
           /\ (req.bodyLen = maxPayloadBytes /\ req.ContentLength = req.bodyLen)
              => calls[c].resp.code # 413

\* a valid Delta in a body of maxPayloadBytes + 2 bytes that declares a
\* length of 0 was answered 413
C29_Witness ==
    \E c \in DOMAIN calls :
        /\ Finished(c) /\ Authenticated(calls[c].req)
        /\ calls[c].req.bodyLen = maxPayloadBytes + 2
        /\ calls[c].req.ContentLength = 0
        /\ calls[c].req.doc.valid /\ Len(calls[c].req.doc.Lines) > 0
        /\ ~calls[c].req.bodyErr
        /\ calls[c].resp.code = 413

\* C30: every request that fails authentication (no header, another
\* scheme, another secret) gets the one response 401 Unauthorized, whatever
\* its declared length, its body or its content, and nothing else is done
\* for it: no analysis, no record.
C30_UnauthorizedFirst ==
    \A c \in DOMAIN calls :
        (Started(c) /\ ~Authenticated(calls[c].req))
        => /\ Finished(c)
           /\ calls[c].resp = Response(401, "", 0, "Unauthorized")
           /\ calls[c].attempts = <<>>
           /\ RowsOf(c) = {}

\* a request with the right secret under the Basic scheme, a declared
\* length beyond the maximum and a body that is no JSON was answered 401
C30_Witness ==
    \E c \in DOMAIN calls :
        /\ Finished(c)
        /\ calls[c].req.Authorization = <<"Basic ", apiKey>>
        /\ calls[c].req.ContentLength = maxPayloadBytes + 1
        /\ ~calls[c].req.doc.valid
        /\ calls[c].resp.code = 401

\* C31: every attempt returns its measured latency, whichever way it
\* fails: the latency an attempt reports is the time the attempt took, also
\* when the outbound request could not be built.
C31_LatencyAlwaysMeasured ==
    \A c \in DOMAIN calls :
        \A j \in 1..Len(calls[c].attempts) :
            calls[c].attempts[j].latency = calls[c].attempts[j].elapsed

\* what Analyze returns for a call that made the attempts as, as a call with
\* a client of its own would: the result of a successful last attempt, the
\* error of a terminal one or the all-unavailable error, the sum of the
\* latencies
OwnAnalysis(as) ==
    LET last == as[Len(as)] IN
    [result  |-> IF AttemptOK(last) THEN last.result ELSE NilResult,
     llmErr  |-> IF AttemptOK(last) THEN NilErr
                 ELSE IF AttemptTerminal(last) THEN last.err
                 ELSE AllUnavailableErr(last.err),
     latency |-> SumLatency(as)]

\* C32: calls that share the client behave as if each had its own.  Every
\* attempt of a call is the outcome of tryEndpoint for that call's own
\* reply, the result, error and total latency a call gets from Analyze are
\* those of its own attempts, and a step of one call leaves every other
\* call as it was.
C32_CallsIndependent ==
    /\ [](\A c \in DOMAIN calls :
            LET as == calls[c].attempts IN
            /\ \A j \in 1..Len(as) :
                  LET o == tryEndpoint(endpoints[as[j].ep], as[j].reply, as[j].elapsed)
                  IN  /\ as[j].err = o.err
                      /\ as[j].latency = o.latency
                      /\ as[j].result = o.result
            /\ calls[c].pc = "analyze" => calls[c].totalLatency = SumLatency(as)
            /\ (Analyzed(c) /\ as # <<>>)
               => /\ calls[c].result = OwnAnalysis(as).result
                  /\ calls[c].llmErr = OwnAnalysis(as).llmErr
                  /\ calls[c].latency = OwnAnalysis(as).latency)
    /\ [][\A c, d \in DOMAIN calls :
            (c # d /\ calls'[c].attempts # calls[c].attempts)
            => calls'[d] = calls[d]]_vars

\* two calls that overlapped: one found both endpoints down after slow
\* attempts, the other got its result from the first endpoint at once
C32_Witness ==
    \E c, d \in DOMAIN calls :
        /\ c # d /\ prior[c] = {} /\ prior[d] = {}
        /\ Len(endpoints) = 2
        /\ AnalysisAllUnavailable(c) /\ calls[c].latency = 2 * MaxLatency
        /\ IsUnavailable(calls[c].llmErr)
        /\ AnalysisSucceeded(d) /\ Len(calls[d].attempts) = 1
        /\ calls[d].latency = 0 /\ calls[d].llmErr.isNil

\* C33: when the attempts before the last were Unavailable and the last is
\* Terminal, Analyze returns the error of the last attempt, IsUnavailable
\* of it is false, the latency is the sum over all the attempts and the
\* record is stored with status error; the all-unavailable error and the
\* status llm_unavailable occur only when every endpoint was Unavailable.
C33_TerminalAfterFallback ==
    \A c \in DOMAIN calls :
        LET as == calls[c].attempts IN
        /\ AnalysisTerminal(c)
           => /\ calls[c].llmErr = as[Len(as)].err
              /\ ~IsUnavailable(calls[c].llmErr)
              /\ calls[c].latency = SumLatency(as)
              /\ \A k \in RowsOf(c) :
                    /\ db[k].status = "error"
                    /\ db[k].api_latency_ms = SumLatency(as)
        /\ (Analyzed(c) /\ IsUnavailable(calls[c].llmErr)) => AnalysisAllUnavailable(c)
        /\ \A k \in RowsOf(c) :
              db[k].status = "llm_unavailable" => AnalysisAllUnavailable(c)

\* a chain of two endpoints, the first down and slow, the second answering
\* 400 slowly: one record with status error and the latency of both
C33_Witness ==
    \E c \in DOMAIN calls :
        /\ Finished(c) /\ AnalysisTerminal(c)
        /\ Len(calls[c].attempts) = 2
        /\ AttemptUnavailable(calls[c].attempts[1])
        /\ calls[c].attempts[2].reply.code = 400
        /\ calls[c].resp.code = 200 /\ calls[c].resp.status = "error"
        /\ \E k \in RowsOf(c) :
              db[k].status = "error" /\ db[k].api_latency_ms = 2 * MaxLatency

\* the lines of a sequence, as a set
LinesOf(lines) == { lines[i] : i \in 1..Len(lines) }

\* the lines are in the order they were logged
InLoggedOrder(lines) ==
    \A i, j \in 1..Len(lines) : i < j => lines[i].n < lines[j].n

\* t is the latest stamp among lines, the zero time for none
IsLatestOf(t, lines) ==
    IF lines = <<>> THEN t = ZeroTime
    ELSE /\ t.nsec = 0
         /\ \E l \in LinesOf(lines) : l.ts = t.sec
         /\ \A l \in LinesOf(lines) : l.ts <= t.sec

\* C34: FilterNewLines returns exactly the lines with a parseable timestamp
\* strictly later than lastSeen, in their original order, and as latest the
\* maximum timestamp among the returned lines (the zero time for none).
C34_FilterNewLines ==
    agent.pc = "filtered" =>
        /\ \A l \in LinesOf(agent.log) :
              l \in LinesOf(agent.lines)
                  <=> (l.ts # NoTimestamp /\ l.ts > agent.lastSeen.sec)
        /\ LinesOf(agent.lines) \subseteq LinesOf(agent.log)
        /\ InLoggedOrder(agent.lines)
        /\ IsLatestOf(agent.latestTs, agent.lines)

\* a line without a timestamp and a line of the marker's second were
\* dropped, and two later lines were returned
C34_Witness ==
    /\ agent.pc = "filtered"
    /\ agent.lastSeen = AgentTime(1, 0, 0)
    /\ \E l \in LinesOf(agent.log) : l.ts = NoTimestamp
    /\ \E l \in LinesOf(agent.log) : l.ts = 1
    /\ Len(agent.lines) >= 1
    /\ Len(agent.lines) < Len(agent.log) - 1

\* the lines of the output that collect found new when it last filtered
NewAtCollect ==
    { l \in LinesOf(agent.log) :
        /\ l.ts # NoTimestamp
        /\ l.ts > agent.lastSeen.sec }

\* C35: CapLines returns the input unchanged with truncated=false when it has
\* at most MaxLines lines, and otherwise exactly the last MaxLines lines in
\* order with truncated=true; so no delta the agent sends has more than
\* MaxLines lines, and the lines it keeps are the most recent ones.
C35_CapLines ==
    /\ agent.pc = "capped" =>
          IF Len(agent.log) <= MaxLines
          THEN agent.lines = agent.log /\ ~agent.truncated
          ELSE /\ Len(agent.lines) = MaxLines
               /\ \A i \in 1..MaxLines :
                     agent.lines[i] = agent.log[Len(agent.log) - MaxLines + i]
               /\ agent.truncated
    /\ agent.pc = "sending" =>
          /\ Len(agent.lines) <= MaxLines
          /\ LinesOf(agent.lines) \subseteq NewAtCollect
          /\ InLoggedOrder(agent.lines)
          /\ \A l \in NewAtCollect \ LinesOf(agent.lines) :
                /\ agent.truncated
                /\ \A k \in LinesOf(agent.lines) : l.n < k.n

\* an output of more than MaxLines lines was cut to its last MaxLines
C35_Witness ==
    /\ agent.pc = "capped"
    /\ Len(agent.log) > MaxLines
    /\ agent.truncated
    /\ Len(agent.lines) = MaxLines

\* a and b are the same instant (a.Equal(b))
SameInstant(a, b) == a.sec = b.sec /\ a.nsec = b.nsec

\* C36: ReadLastTimestamp after WriteLastTimestamp(t) returns t, and
\* ReadLastTimestamp of a missing or corrupt state file returns the zero
\* time with no error.
C36_StateRoundTrip ==
    /\ agent.pc = "read back"
          => ~agent.readErr /\ SameInstant(agent.lastSeen, agent.latestTs)
    /\ (agent.pc = "read"
            /\ agent.stateFile \in {NoStateFile, CorruptFile, EmptyFile})
          => ~agent.readErr /\ agent.lastSeen = ZeroTime

\* a timestamp with a fraction of a second, in a zone east of UTC, was
\* written over a corrupt file and read back
C36_Witness ==
    /\ agent.pc = "read back"
    /\ agent.before = CorruptFile
    /\ agent.latestTs = AgentTime(1, 1, 1)
    /\ agent.lastSeen = agent.latestTs
    /\ ~agent.readErr

\* the caller of invocation c went away while an outbound attempt of its
\* analysis was under way
Interrupted(c) ==
    /\ calls[c].cancelledAt >= 0
    /\ Len(calls[c].attempts) > calls[c].cancelledAt

\* C37: a caller cancellation that interrupts an outbound attempt is
\* classified as Unavailable: the coordinator attempts every remaining
\* endpoint, returns the all-unavailable error, and the record is stored
\* with status llm_unavailable.
C37_CancelIsUnavailable ==
    \A c \in DOMAIN calls :
        (Analyzed(c) /\ Interrupted(c))
        => /\ Len(calls[c].attempts) = Len(endpoints)
           /\ \A j \in 1..Len(calls[c].attempts) :
                 AttemptUnavailable(calls[c].attempts[j])
           /\ IsUnavailable(calls[c].llmErr)
           /\ \A k \in RowsOf(c) : db[k].status = "llm_unavailable"

\* C38: during shutdown the store is closed only after every in-flight
\* ingestion call has finished its insert, so no accepted non-empty Delta
\* whose handler is still running when shutdown begins loses its record.
C38_CloseAfterInserts ==
    \A c \in DOMAIN calls :
        /\ dbClosed => calls[c].pc \in {"idle", "done"}
        /\ Finished(c) => RowsOf(c) # {}

\* the agent's marker is at or past the second of line l
MarkerPassed(l) ==
    ~After(AgentTime(l.ts, 0, 0), ReadLastTimestamp(agent.stateFile).ts)

\* C39: when sends succeed and no collection has more than MaxLines new
\* lines, the marker never skips a line: every stamped line of the log that
\* the marker has passed was in a Delta sent to the collector, a line logged
\* in the second of the latest line already sent included.
C39_MarkerSkipsNoLine ==
    (agent.pc = "idle" /\ ~agent.overflowed)
    => \A l \in LinesOf(agent.log) :
          (l.ts # NoTimestamp /\ MarkerPassed(l)) => l.n \in agent.delivered

\* the raw text the collector stores for a Delta of these lines
JoinedLines(lines) ==
    Join([k \in 1..Len(lines) |-> LineText(lines[k].n)], "\n")

\* the results table holds a record of host h1 whose raw text has line
\* number n (the lines are at the odd places of the joined text)
Recorded(n) ==
    \E k \in 1..Len(db) :
        /\ db[k].hostname = "h1"
        /\ \E j \in 1..Len(db[k].raw_dmesg) :
              j % 2 = 1 /\ db[k].raw_dmesg[j] = LineText(n)

\* C40: whenever the agent advances its marker after sending a non-empty
\* Delta, the store already holds a record whose raw text is that Delta's
\* joined lines; the marker is never advanced for lines the collector has
\* not recorded.
C40_MarkerOnlyForRecorded ==
    /\ [][(agent.pc = "sending" /\ agent'.stateFile # agent.stateFile)
            => /\ agent.lines # <<>>
               /\ \E k \in 1..Len(db) :
                     /\ db[k].hostname = "h1"
                     /\ db[k].raw_dmesg = JoinedLines(agent.lines)]_vars
    /\ [](\A n \in agent.delivered : Recorded(n))

\* two lines were sent in one Delta, the collector stored them in one record
\* and answered 200, and the marker is at the second of the later line
C40_Witness ==
    /\ agent.pc = "idle"
    /\ agent.delivered = {1, 2}
    /\ Len(agent.log) >= 2
    /\ agent.stateFile = WriteLastTimestamp(AgentTime(agent.log[2].ts, 0, 0))
    /\ agent.stateFile # agent.before
    /\ \E k \in 1..Len(db) :
          db[k].raw_dmesg = <<LineText(1), "\n", LineText(2)>>

====
